---- MODULE Spec2Model ----
(***************************************************************************)
(* Model of zen (src/zen.py): the change engine that decides, per compile  *)
(* object and per target of a CMake build directory, whether a rebuild can *)
(* be avoided (meditate), and that records fingerprints (remember).        *)
(*                                                                         *)
(* Source files are taken from a small catalogue of concrete C++ texts.    *)
(* Every text is given as the component tree the component factory of      *)
(* zen.py produces for it (kind, name, stripped chunk lines, tokens,       *)
(* prefix lines, inner components), or as the error the factory raises.    *)
(* Per-line digests are taken to be collision-free: a hash is modelled by  *)
(* the sequence of the strings it was folded from.                         *)
(***************************************************************************)
EXTENDS Integers, Sequences, FiniteSets, TLC

(***************************************************************************)
(* Bounds of the model.                                                    *)
(***************************************************************************)
MaxClock == 3

MaxEdits == 2

(***************************************************************************)
(* class Status(enum.IntEnum)                                              *)
(***************************************************************************)
UNCHECKED == 1

NO_CHANGE == 2

MINOR_CHANGE == 3

CHANGED == 4

Max2(a, b) == IF a >= b THEN a ELSE b

(***************************************************************************)
(* The build directory: two targets, the executable "app" and the static   *)
(* library "hello" it links; one object each.                              *)
(***************************************************************************)
Sources == {"main.cc", "sample.h", "hello.cc"}

Objects == {"main.o", "hello.o"}

Targets == {"app", "hello"}

ObjSources(o) == IF o = "main.o" THEN <<"main.cc", "sample.h">> ELSE <<"hello.cc">>

TargetObjects(t) == IF t = "app" THEN <<"main.o">> ELSE <<"hello.o">>

\* A build directory may hold one more target directory, "plugin", whose
\* cmake_clean.cmake names an output that is neither an executable nor a
\* library; it has no objects and no dependencies.
TargetDirs == {Targets, Targets \cup {"plugin"}}

TargetOut(t) ==
    CASE t = "app" -> "app"
      [] t = "hello" -> "libhello.a"
      [] OTHER -> "plugin.dll"

DependencyPaths(t) == IF t = "app" THEN {"main.o", "libhello.a", "Makefile2"} ELSE {"hello.o"}

Ext(path) ==
    CASE path \in {"sample.h"} -> ".h"
      [] path \in {"main.cc", "hello.cc"} -> ".cc"
      [] path \in {"main.o", "hello.o"} -> ".o"
      [] path = "libhello.a" -> ".a"
      [] path = "plugin.dll" -> ".dll"
      [] OTHER -> ""

HEADER_EXT == {".h", ".hpp", ".hh", ".hxx"}

LIB_TYPES == {"STATIC_LIB", "SHARED_LIB"}

type_from_path(path) ==
    CASE Ext(path) = "" -> "EXECUTABLE"
      [] Ext(path) = ".a" -> "STATIC_LIB"
      [] Ext(path) = ".so" -> "SHARED_LIB"
      [] OTHER -> "UNKNOWN"

TargetType(t) == type_from_path(TargetOut(t))

\* Target._identify_target: no path is presumed for an unknown type.
file_path(t) == IF TargetType(t) = "UNKNOWN" THEN "None" ELSE TargetOut(t)

\* BuildDir.__init__ on the target directories ds: targets_by_path calls
\* file_path.absolute() for every target.
BuildDirInit(ds) ==
    IF \E t \in ds : file_path(t) = "None" THEN "AttributeError" ELSE "none"

is_header(s) == Ext(s) \in HEADER_EXT

\* Target.lib_dependencies: the targets whose output file is a library
\* named among the dependency paths.
lib_dependencies(t) ==
    {l \in Targets : TargetOut(l) \in DependencyPaths(t)
                     /\ type_from_path(TargetOut(l)) \in LIB_TYPES}

\* Target.other_dependencies: neither libraries nor objects.
other_dependencies(t) ==
    {d \in DependencyPaths(t) : type_from_path(d) \notin LIB_TYPES /\ Ext(d) # ".o"}

Others == UNION {other_dependencies(t) : t \in Targets}

(***************************************************************************)
(* Components.  A component is the record the factory Component.create     *)
(* builds from a chunk: kind is its class, name its name attribute ("" for *)
(* a class without one), lines the stripped lines of its chunk, toks the   *)
(* result of _find_tokens, prefix the stripped lines of its prefix chunk   *)
(* and inner the sub-components of its inner block.                        *)
(***************************************************************************)
Comp(kind, name, lines, toks, prefix, inner) ==
    [kind |-> kind, name |-> name, lines |-> lines, toks |-> toks,
     prefix |-> prefix, inner |-> inner]

Stmt(line, toks) == Comp("MiscStatement", "", <<line>>, toks, <<>>, <<>>)

(***************************************************************************)
(* The catalogue of texts of sample.h.  Version 1 is the base text:        *)
(*     #define LIMIT 1                                                     *)
(*     int used(int a);                                                    *)
(*     class Foo {                                                         *)
(*      public:                                                            *)
(*       int get() {                                                       *)
(*         return 1;                                                       *)
(*       }                                                                 *)
(*       Foo operator+(const Foo& o) {                                     *)
(*         return o;                                                       *)
(*       }                                                                 *)
(*     };                                                                  *)
(*     class Herring {                                                     *)
(*       int fish() {                                                      *)
(*         return 1;                                                       *)
(*       }                                                                 *)
(*       Herring operator-(const Herring& o) {                             *)
(*         return o;                                                       *)
(*       }                                                                 *)
(*     };                                                                  *)
(* and every other version is the base text with one edit:                 *)
(*   2  LIMIT 2                      (preprocessor directive)              *)
(*   3  int used(long a);            (one-line declaration)                *)
(*   4  Foo::get returns 2           (member body, class named by main.cc) *)
(*   5  Foo::operator+ returns *this (operator body, class named)          *)
(*   6  Herring::fish returns 2      (member body, class named nowhere)    *)
(*   7  Herring::operator- returns *this (operator body, class not named)  *)
(*   8  no ';' after the body of class Herring                             *)
(*   9  a function definition inside the body of Herring::fish             *)
(*  10  a last line  #define TAIL \  (macro that never ends)               *)
(*  11  puts("abc);  in Herring::fish (string literal that never ends)     *)
(*  12  the empty file                                                     *)
(*  13  two functions that call each other, added at the end:              *)
(*          int get(int a) {                                               *)
(*            return used(a);                                              *)
(*          }                                                              *)
(*          int used(int a) {                                              *)
(*            return get(a);                                               *)
(*          }                                                              *)
(*  14  a comment and nothing else:                                        *)
(*          // nothing here                                                *)
(***************************************************************************)
HeaderVersions == 1..14

DefineLine(v) == IF v = 2 THEN "#define LIMIT 2" ELSE "#define LIMIT 1"

UsedLine(v) == IF v = 3 THEN "int used(long a);" ELSE "int used(int a);"

GetBody(v) == IF v = 4 THEN Stmt("return 2;", {"return", "2"}) ELSE Stmt("return 1;", {"return", "1"})

FooOpBody(v) == IF v = 5 THEN Stmt("return *this;", {"return", "this"}) ELSE Stmt("return o;", {"return", "o"})

FishBody(v) ==
    CASE v = 6 -> Stmt("return 2;", {"return", "2"})
      [] v = 9 -> Stmt("int g() { return 1; }", {"int", "g", "return", "1"})
      [] v = 11 -> Stmt("puts(\"abc);", {"puts", "abc"})
      [] OTHER -> Stmt("return 1;", {"return", "1"})

HerringOpBody(v) == IF v = 7 THEN Stmt("return *this;", {"return", "this"}) ELSE Stmt("return o;", {"return", "o"})

MemberDef(name, head, toks, body) ==
    Comp("MemberFunctionDefinition", name,
         <<head \o " {">> \o body.lines \o <<"}">>, toks, <<head>>, <<body>>)

FooGet(v) == MemberDef("get", "int get()", {"int", "get"}, GetBody(v))

FooOp(v) ==
    MemberDef("operator", "Foo operator+(const Foo& o)",
              {"Foo", "operator", "const", "o"}, FooOpBody(v))

HerringFish(v) == MemberDef("fish", "int fish()", {"int", "fish"}, FishBody(v))

HerringOp(v) ==
    MemberDef("operator", "Herring operator-(const Herring& o)",
              {"Herring", "operator", "const", "o"}, HerringOpBody(v))

PublicLabel == Comp("Label", "public", <<"public:">>, {"public"}, <<>>, <<>>)

ClassFoo(v) ==
    Comp("CppClassDefinition", "Foo",
         <<"class Foo {", "public:">> \o FooGet(v).lines \o FooOp(v).lines \o <<"};">>,
         {"class", "Foo"}, <<"class Foo">>,
         <<PublicLabel, FooGet(v), FooOp(v)>>)

ClassHerring(v) ==
    Comp("CppClassDefinition", "Herring",
         <<"class Herring {">> \o HerringFish(v).lines \o HerringOp(v).lines
             \o <<IF v = 8 THEN "}" ELSE "};">>,
         {"class", "Herring"}, <<"class Herring">>,
         <<HerringFish(v), HerringOp(v)>>)

SampleH(v) ==
    IF v \in {12, 14} THEN <<>>
    ELSE <<Comp("PreprocessorComponent", "", <<DefineLine(v)>>,
                {"define", "LIMIT", IF v = 2 THEN "2" ELSE "1"}, <<>>, <<>>),
           Comp("FunctionDeclaration", "used", <<UsedLine(v)>>,
                {"int", "used", "a"} \cup (IF v = 3 THEN {"long"} ELSE {}), <<>>, <<>>),
           ClassFoo(v),
           ClassHerring(v)>>
         \o (IF v = 10
             THEN <<Comp("PreprocessorComponent", "", <<"#define TAIL \\">>,
                         {"define", "TAIL"}, <<>>, <<>>)>>
             ELSE <<>>)
         \o (IF v = 13
             THEN <<Comp("FunctionDefinition", "get",
                         <<"int get(int a) {", "return used(a);", "}">>,
                         {"int", "get", "a"}, <<"int get(int a)">>,
                         <<Stmt("return used(a);", {"return", "used", "a"})>>),
                    Comp("FunctionDefinition", "used",
                         <<"int used(int a) {", "return get(a);", "}">>,
                         {"int", "used", "a"}, <<"int used(int a)">>,
                         <<Stmt("return get(a);", {"return", "get", "a"})>>)>>
             ELSE <<>>)

(***************************************************************************)
(* main.cc:   #include <sample.h>                                          *)
(*            int main() {                                                 *)
(*              Foo f;                                                     *)
(*              return used(f.get());        version 2: ... + 1;           *)
(*            }                                                            *)
(* hello.cc:  int hello() {                                                *)
(*              return 0;                    version 2: return 1;          *)
(*            }                                                            *)
(***************************************************************************)
CcVersions == 1..2

MainReturn(v) ==
    IF v = 2 THEN Stmt("return used(f.get()) + 1;", {"return", "used", "f", "get", "1"})
    ELSE Stmt("return used(f.get());", {"return", "used", "f", "get"})

MainCc(v) ==
    <<Comp("PreprocessorComponent", "", <<"#include <sample.h>">>,
           {"include", "sample", "h"}, <<>>, <<>>),
      Comp("FunctionDefinition", "main",
           <<"int main() {", "Foo f;">> \o MainReturn(v).lines \o <<"}">>,
           {"int", "main"}, <<"int main()">>,
           <<Stmt("Foo f;", {"Foo", "f"}), MainReturn(v)>>)>>

HelloReturn(v) == IF v = 2 THEN Stmt("return 1;", {"return", "1"}) ELSE Stmt("return 0;", {"return", "0"})

HelloCc(v) ==
    <<Comp("FunctionDefinition", "hello",
           <<"int hello() {">> \o HelloReturn(v).lines \o <<"}">>,
           {"int", "hello"}, <<"int hello()">>, <<HelloReturn(v)>>)>>

\* The constructs that main.cc names, in the order in which it names them:
\* the order in which used_constructs yields them.
UseOrder == <<"Foo", "used", "get">>

Versions(s) == IF s = "sample.h" THEN HeaderVersions ELSE CcVersions

\* The top-level components of version v of source s.
Components(s, v) ==
    CASE s = "sample.h" -> SampleH(v)
      [] s = "main.cc" -> MainCc(v)
      [] OTHER -> HelloCc(v)

\* What decomposing version v of source s into components raises.
ParseError(s, v) ==
    CASE s = "sample.h" /\ v \in {8, 9, 10} -> "ParsingException"
      [] s = "sample.h" /\ v \in {11, 14} -> "ValueError"
      [] s = "sample.h" /\ v = 12 -> "IndexError"
      [] OTHER -> "none"

(***************************************************************************)
(* Hashing.  md5 is taken to be injective and join_hashes (a polynomial    *)
(* fold with a prime base, sensitive to order) likewise: a digest is       *)
(* represented by the sequence it was folded from.                         *)
(***************************************************************************)
join_hashes(hashes) == hashes

iter_hash(strings) == join_hashes(strings)

\* Chunk.line_strings: a line is yielded when its '\n' is read, so the
\* last line of a chunk, which ends the chunk without one, is not yielded.
line_strings(lines) == SubSeq(lines, 1, Len(lines) - 1)

\* Chunk.content_hash
content_hash(lines) == iter_hash(line_strings(lines))

RECURSIVE Flatten(_)
\* Concatenation of a sequence of sequences.
Flatten(seqs) == IF seqs = <<>> THEN <<>> ELSE Head(seqs) \o Flatten(Tail(seqs))

\* The non-blank stripped lines of version v of source s.
StrippedLines(s, v) == Flatten([i \in DOMAIN Components(s, v) |-> Components(s, v)[i].lines])

\* SourceContent.stripped_hash
stripped_hash(s, v) == iter_hash(StrippedLines(s, v))

\* SourceFile.hex and CompileObject.construct_hex: the cache keys
\* (md5 of the string, represented by the string).
hex(s) == s

construct_hex(o, name) == "[" \o o \o "][CONSTRUCT][" \o name \o "]"

(***************************************************************************)
(* Components and constructs                                               *)
(***************************************************************************)
RECURSIVE recursive_components(_)
\* Component.sub_components is empty except for blocks, namespaces and
\* control blocks.
sub_components(c) ==
    IF c.kind \in {"Block", "NamespaceComponent", "ControlBlock"} THEN c.inner ELSE <<>>

recursive_components(comps) ==
    IF comps = <<>> THEN <<>>
    ELSE <<Head(comps)>> \o recursive_components(sub_components(Head(comps)))
             \o recursive_components(Tail(comps))

FunctionKinds == {"FunctionDefinition", "MemberFunctionDefinition"}

DeclarationKinds == {"FunctionDeclaration", "MemberFunctionDeclaration"}

RECURSIVE construct_content(_)
\* Component.construct_content and its overrides: the dict items, in
\* insertion order, as pairs <<construct name, components>>.  A name may
\* occur in several pairs (update_content appends): the graph appends too.
construct_content(c) ==
    CASE c.kind \in DeclarationKinds -> << <<c.name, <<c>> >> >>
      [] c.kind \in FunctionKinds ->
            << <<c.name, <<Comp("MiscStatement", "", c.prefix, c.toks, <<>>, <<>>)>> \o c.inner>> >>
      [] c.kind = "CppClassDefinition" ->
            << <<c.name, c.inner>> >>
                \o Flatten([i \in DOMAIN c.inner |-> construct_content(c.inner[i])])
      [] OTHER -> <<>>

\* The first error that decomposing the sources of o raises, if any.
create_constructs_error(o, cont) ==
    LET srcs == ObjSources(o)
        bad == {i \in DOMAIN srcs : ParseError(srcs[i], cont[srcs[i]]) # "none"}
    IN  IF bad = {} THEN "none"
        ELSE LET i == CHOOSE k \in bad : \A m \in bad : k <= m
             IN  ParseError(srcs[i], cont[srcs[i]])

\* CompileObject.create_constructs: the items added to the graph, in order.
\* cont gives the version of each source.
GraphItems(o, cont) ==
    Flatten([i \in DOMAIN ObjSources(o) |->
        LET comps == recursive_components(Components(ObjSources(o)[i], cont[ObjSources(o)[i]]))
        IN  Flatten([j \in DOMAIN comps |-> construct_content(comps[j])])])

ConstructNames(items) == {items[i][1] : i \in DOMAIN items}

RECURSIVE ContentOf(_, _)
\* Construct.content: what add_content accumulated under the name.
ContentOf(items, name) ==
    IF items = <<>> THEN <<>>
    ELSE (IF Head(items)[1] = name THEN Head(items)[2] ELSE <<>>) \o ContentOf(Tail(items), name)

\* Construct.content_hash
construct_hash(items, name) ==
    LET parts == ContentOf(items, name)
    IN  join_hashes([i \in DOMAIN parts |-> content_hash(parts[i].lines)])

RECURSIVE used_constructs(_, _)
\* Component.used_constructs, with the overrides of FunctionDefinition
\* and CppClassDefinition that add what the inner components use.
used_constructs(c, names) ==
    {t \in c.toks : t \in names /\ c.name # t}
        \cup (IF c.kind \in FunctionKinds \cup {"CppClassDefinition"}
              THEN UNION {used_constructs(c.inner[i], names) : i \in DOMAIN c.inner}
              ELSE {})

\* Construct.dependencies
dependencies(items, name) ==
    LET parts == ContentOf(items, name)
    IN  UNION {used_constructs(parts[i], ConstructNames(items)) : i \in DOMAIN parts}
            \ {name}

\* What the loops of Construct._dep_search over a construct's content find:
\* the constructs its components use, the construct itself among them when
\* a component without that name names it.
UsedByContent(items, name) ==
    LET parts == ContentOf(items, name)
    IN  UNION {used_constructs(parts[i], ConstructNames(items)) : i \in DOMAIN parts}

RECURSIVE dep_search(_, _, _, _)
\* Construct._dep_search, from its loops on: rest holds the used
\* constructs the loops have yet to reach, and the result is the visited
\* set.  A dep not yet visited is added, and then searched when recurse:
\* that call begins with "if construct in visited: return".
dep_search(items, rest, visited, recurse) ==
    IF rest = {} THEN visited
    ELSE LET dep == CHOOSE d \in rest : TRUE
             added == visited \cup {dep}
         IN  dep_search(items, rest \ {dep},
                 IF dep \in visited THEN visited
                 ELSE IF recurse /\ dep \notin added
                      THEN dep_search(items, UsedByContent(items, dep), added, recurse)
                      ELSE added,
                 recurse)

\* Construct.recursive_dependencies: deps.remove(self) raises KeyError when
\* the search did not add the construct itself.
recursive_dependencies(items, name) ==
    LET deps == dep_search(items, UsedByContent(items, name), {}, TRUE)
    IN  IF name \in deps THEN [err |-> "none", deps |-> deps \ {name}]
        ELSE [err |-> "KeyError", deps |-> {}]

\* The constructs that the components of the i-th source of o use.
UsedBySource(o, cont, i, names) ==
    LET comps == recursive_components(Components(ObjSources(o)[i], cont[ObjSources(o)[i]]))
    IN  UNION {used_constructs(comps[j], names) : j \in DOMAIN comps}

\* The function f as a table: every value computed, once.
Table(f) == f @@ <<>>

\* The ConstructGraph of o, as far as the change engine reads it: the
\* constructs' names, hashes and dependencies, what each source uses, and
\* the error raised instead, if any.
create_constructs(o, cont) ==
    LET items == GraphItems(o, cont)
        names == ConstructNames(items)
    IN  [err |-> create_constructs_error(o, cont),
         names |-> names,
         hash |-> Table([n \in names |-> construct_hash(items, n)]),
         deps |-> Table([n \in names |-> dependencies(items, n)]),
         rdeps |-> Table([n \in names |-> recursive_dependencies(items, n)]),
         used |-> Table([i \in DOMAIN ObjSources(o) |-> UsedBySource(o, cont, i, names)])]

\* Every assignment of a version to each source.
Contents == {c \in [Sources -> HeaderVersions \cup CcVersions] : \A s \in Sources : c[s] \in Versions(s)}

\* The hashes and graphs, computed once per text.
StrippedHashes == Table([s \in Sources |-> Table([v \in Versions(s) |-> stripped_hash(s, v)])])

Graphs == Table([o \in Objects |-> Table([c \in Contents |-> create_constructs(o, c)])])

(***************************************************************************)
(* The change engine.  A cache is a function from keys to hashes; its      *)
(* DOMAIN is the set of keys stored.  cont gives the version of each       *)
(* source, smt the modification time of each source, and a time of 0       *)
(* stands for a file that does not exist.                                  *)
(***************************************************************************)
EmptyCache == [k \in {} |-> <<>>]

\* dict.update: the entries of b, and those of a that b does not replace.
Update(a, b) == b @@ a

\* SourceFile.substantive_changes with the comparison the wrong way round.
substantive_changes_inverted(s, cont, cache) ==
    IF hex(s) \in DOMAIN cache THEN StrippedHashes[s][cont[s]] = cache[hex(s)] ELSE TRUE

\* SourceFile.substantive_changes
substantive_changes(s, cont, cache) ==
    IF hex(s) \in DOMAIN cache THEN StrippedHashes[s][cont[s]] # cache[hex(s)] ELSE TRUE

\* CompileObject.sources_modified
sources_modified(o, omt, smt) ==
    IF omt[o] = 0 THEN TRUE
    ELSE \E i \in DOMAIN ObjSources(o) : omt[o] <= smt[ObjSources(o)[i]]

\* CompileObject._has_code_changes
has_code_changes(o, cont, cache) ==
    \E i \in DOMAIN ObjSources(o) : substantive_changes(ObjSources(o)[i], cont, cache)

RECURSIVE is_changed(_, _, _, _, _)
\* is_changed in CompileObject._has_used_content_change, on the graph g:
\* "True", "False" or "RecursionError".  calls holds the constructs whose
\* calls are in progress: change_cache gets a construct only when its call
\* ends, so a construct met again on the way calls itself without end.
\* (The set of dependencies is iterated in an order that is not fixed: it
\* decides between "True" and "RecursionError" for a construct with a
\* changed dependency and one on a cycle, which the catalogue has not.)
is_changed(o, g, cache, name, calls) ==
    IF name \in calls THEN "RecursionError"
    ELSE LET deps == {is_changed(o, g, cache, dep, calls \cup {name}) : dep \in g.deps[name]}
         IN  IF "RecursionError" \in deps THEN "RecursionError"
             ELSE IF "True" \in deps THEN "True"
             ELSE IF construct_hex(o, name) \notin DOMAIN cache THEN "True"
             ELSE IF cache[construct_hex(o, name)] # g.hash[name] THEN "True"
             ELSE "False"

\* The used constructs S in the order in which the loop meets them.
OrderedUse(S) ==
    LET RECURSIVE Rest(_)
        Rest(T) == IF T = {} THEN <<>>
                   ELSE LET n == CHOOSE x \in T : TRUE IN <<n>> \o Rest(T \ {n})
    IN  SelectSeq(UseOrder, LAMBDA n : n \in S)
            \o Rest(S \ {UseOrder[i] : i \in DOMAIN UseOrder})

RECURSIVE FirstChanged(_, _, _, _)
\* "if is_changed(used_construct): return True" for the constructs of the
\* sequence, in order.
FirstChanged(o, g, cache, names) ==
    IF names = <<>> THEN "False"
    ELSE LET r == is_changed(o, g, cache, Head(names), {})
         IN  IF r = "False" THEN FirstChanged(o, g, cache, Tail(names)) ELSE r

RECURSIVE UsedContentLoop(_, _, _, _, _)
\* The loop of _has_used_content_change over the sources of o from the
\* i-th on; headers says that the headers are compared too.
UsedContentLoop(o, cont, cache, i, headers) ==
    LET g == Graphs[o][cont]
        srcs == ObjSources(o)
    IN  IF i > Len(srcs) THEN "False"
        ELSE IF is_header(srcs[i]) /\ ~headers THEN UsedContentLoop(o, cont, cache, i + 1, headers)
        ELSE IF substantive_changes(srcs[i], cont, cache) THEN "True"
        ELSE LET r == FirstChanged(o, g, cache, OrderedUse(g.used[i]))
             IN  IF r = "False" THEN UsedContentLoop(o, cont, cache, i + 1, headers) ELSE r

\* CompileObject._has_used_content_change without "if source.is_header:
\* continue": the headers are compared like the other sources.
has_used_content_change_headers(o, cont, cache) ==
    IF Graphs[o][cont].err # "none" THEN Graphs[o][cont].err
    ELSE UsedContentLoop(o, cont, cache, 1, TRUE)

\* CompileObject._has_used_content_change: "True", "False", or the name of
\* the exception raised by create_constructs or by is_changed.
has_used_content_change(o, cont, cache) ==
    IF Graphs[o][cont].err # "none" THEN Graphs[o][cont].err
    ELSE UsedContentLoop(o, cont, cache, 1, FALSE)

(***************************************************************************)
(* A run of zen is a record st:                                            *)
(*   ostat, tstat  status of every object and target                       *)
(*   omt, tmt      modification times of the object and target files       *)
(*   hc            BuildDir._hash_cache: loaded says it is not None        *)
(*   log           the files touched, in order                             *)
(*   called        the objects whose meditate was called                   *)
(*   err           "none", or the exception that ended the run             *)
(***************************************************************************)
\* BuildDir.hash_cache: loads the cache file on first use.
hash_cache(st, file) ==
    IF st.hc.loaded THEN st.hc
    ELSE [loaded |-> TRUE, map |-> IF file.exists THEN file.map ELSE EmptyCache]

\* touch -c: sets the time of an existing file, creates none.
Touch(mt, f, now) == IF mt[f] = 0 THEN mt ELSE [mt EXCEPT ![f] = now]

\* CompileObject.meditate from the try statement on, with
\* self.avoid_build() after the if statement instead of in its else branch.
ObjectVerdictTouchAlways(o, st, used, now) ==
    CASE used \in {"True", "ParsingException"} -> [st EXCEPT !.ostat[o] = CHANGED,
                                                             !.omt = Touch(@, o, now),
                                                             !.log = Append(@, o)]
      [] used = "False" -> [st EXCEPT !.ostat[o] = MINOR_CHANGE,
                                      !.omt = Touch(@, o, now),
                                      !.log = Append(@, o)]
      [] OTHER -> [st EXCEPT !.err = used]

\* CompileObject.meditate from the try statement on: used is "False" when
\* there are no code changes, else what _has_used_content_change returns
\* or raises.  Any exception but ParsingException ends the run.
ObjectVerdict(o, st, used, now) ==
    CASE used \in {"True", "ParsingException"} -> [st EXCEPT !.ostat[o] = CHANGED]
      [] used = "False" -> [st EXCEPT !.ostat[o] = MINOR_CHANGE,
                                      !.omt = Touch(@, o, now),
                                      !.log = Append(@, o)]
      [] OTHER -> [st EXCEPT !.err = used]

\* "self._has_code_changes() and self._has_used_content_change()"
UsedChange(o, cont, cache) ==
    IF has_code_changes(o, cont, cache) THEN has_used_content_change(o, cont, cache) ELSE "False"

\* CompileObject.meditate that stores the stripped_hash of the sources it
\* has compared in the map.
CompileObjectMeditateStoring(o, st, cont, smt, file, now) ==
    IF st.err # "none" THEN st
    ELSE IF ~sources_modified(o, st.omt, smt)
    THEN [st EXCEPT !.called = @ \cup {o}, !.ostat[o] = NO_CHANGE]
    ELSE ObjectVerdict(o,
             [st EXCEPT !.called = @ \cup {o},
                        !.hc = [loaded |-> TRUE,
                                map |-> Update(hash_cache(st, file).map,
                                    [k \in {hex(ObjSources(o)[i]) : i \in DOMAIN ObjSources(o)} |->
                                        LET s == CHOOSE x \in Sources : hex(x) = k
                                        IN  StrippedHashes[s][cont[s]]])]],
             UsedChange(o, cont, hash_cache(st, file).map), now)

\* CompileObject.meditate
CompileObjectMeditate(o, st, cont, smt, file, now) ==
    IF st.err # "none" THEN st
    ELSE IF ~sources_modified(o, st.omt, smt)
    THEN [st EXCEPT !.called = @ \cup {o}, !.ostat[o] = NO_CHANGE]
    ELSE ObjectVerdict(o, [st EXCEPT !.called = @ \cup {o}, !.hc = hash_cache(st, file)],
                       UsedChange(o, cont, hash_cache(st, file).map), now)

RECURSIVE MeditateObjects(_, _, _, _, _, _)
\* [o.meditate() for o in self.objects]
MeditateObjects(objs, st, cont, smt, file, now) ==
    IF objs = <<>> THEN st
    ELSE MeditateObjects(Tail(objs), CompileObjectMeditate(Head(objs), st, cont, smt, file, now),
                         cont, smt, file, now)

MaxStatus(S) == IF S = {} THEN NO_CHANGE ELSE CHOOSE m \in S : \A x \in S : x <= m

\* Target.other_status
other_status(t, tmt, xmt) ==
    IF \E d \in other_dependencies(t) : xmt[d] > tmt[t] THEN CHANGED ELSE NO_CHANGE

\* Target.meditate without max_lib_status.
TargetStatusNoLibs(t, st, xmt) ==
    IF st.tmt[t] # 0
    THEN Max2(MaxStatus({st.ostat[TargetObjects(t)[i]] : i \in DOMAIN TargetObjects(t)}),
              other_status(t, st.tmt, xmt))
    ELSE CHANGED

\* Target.meditate: the status of a target whose objects and libraries
\* are done.
TargetStatus(t, st, xmt) ==
    IF st.tmt[t] # 0
    THEN Max2(MaxStatus({st.ostat[TargetObjects(t)[i]] : i \in DOMAIN TargetObjects(t)}),
              Max2(MaxStatus({st.tstat[l] : l \in lib_dependencies(t)}),
                   other_status(t, st.tmt, xmt)))
    ELSE CHANGED

\* Target.meditate: the status is set, and the target touched if it is
\* MINOR_CHANGE and the type of the target is known.
SetStatus(t, st, status, now) ==
    IF status = MINOR_CHANGE /\ TargetType(t) # "UNKNOWN"
    THEN [st EXCEPT !.tstat[t] = status, !.tmt = Touch(@, t, now), !.log = Append(@, TargetOut(t))]
    ELSE [st EXCEPT !.tstat[t] = status]

\* Target.meditate after the objects (st).
MeditateAfterObjects(t, st, xmt, now) ==
    IF st.err # "none" THEN st ELSE SetStatus(t, st, TargetStatus(t, st, xmt), now)

\* Target.meditate after the libraries (st), with self.avoid_build() run
\* before the objects are meditated instead of after.
MeditateAfterLibsTouchFirst(t, st, cont, smt, xmt, file, now) ==
    LET r == MeditateAfterObjects(t, MeditateObjects(TargetObjects(t), st, cont, smt, file, now),
                                  xmt, now)
    IN  IF Len(r.log) > Len(st.log) /\ r.log[Len(r.log)] = TargetOut(t)
        THEN [r EXCEPT !.log = st.log \o <<TargetOut(t)>>
                                  \o SubSeq(r.log, Len(st.log) + 1, Len(r.log) - 1)]
        ELSE r

\* Target.meditate after the libraries (st).
MeditateAfterLibs(t, st, cont, smt, xmt, file, now) ==
    MeditateAfterObjects(t, MeditateObjects(TargetObjects(t), st, cont, smt, file, now), xmt, now)

RECURSIVE MeditateTargetsNoLibs(_, _, _, _, _, _, _)
\* Target.meditate without the loop "for lib in self.lib_dependencies:
\* lib.meditate()".
MeditateTargetsNoLibs(ts, st, cont, smt, xmt, file, now) ==
    IF ts = {} THEN st
    ELSE LET t == CHOOSE x \in ts : TRUE
         IN  MeditateTargetsNoLibs(ts \ {t},
                 IF st.err # "none" \/ st.tstat[t] # UNCHECKED THEN st
                 ELSE MeditateAfterLibs(t, st, cont, smt, xmt, file, now),
                 cont, smt, xmt, file, now)

RECURSIVE MeditateTargetsUnchecked(_, _, _, _, _, _, _)
\* Target.meditate without "if self.status != Status.UNCHECKED: return".
MeditateTargetsUnchecked(ts, st, cont, smt, xmt, file, now) ==
    IF ts = {} THEN st
    ELSE LET t == CHOOSE x \in ts : TRUE
         IN  MeditateTargetsUnchecked(ts \ {t},
                 IF st.err # "none" THEN st
                 ELSE MeditateAfterLibs(t,
                          MeditateTargetsUnchecked(lib_dependencies(t), st, cont, smt, xmt, file, now),
                          cont, smt, xmt, file, now),
                 cont, smt, xmt, file, now)

RECURSIVE MeditateTargets(_, _, _, _, _, _, _)
\* t.meditate() for every target t of ts: a target that has a status
\* returns at once, another runs its libraries first.
MeditateTargets(ts, st, cont, smt, xmt, file, now) ==
    IF ts = {} THEN st
    ELSE LET t == CHOOSE x \in ts : TRUE
         IN  MeditateTargets(ts \ {t},
                 IF st.err # "none" \/ st.tstat[t] # UNCHECKED THEN st
                 ELSE MeditateAfterLibs(t,
                          MeditateTargets(lib_dependencies(t), st, cont, smt, xmt, file, now),
                          cont, smt, xmt, file, now),
                 cont, smt, xmt, file, now)

\* Target.meditate
TargetMeditate(t, st, cont, smt, xmt, file, now) ==
    MeditateTargets({t}, st, cont, smt, xmt, file, now)

(***************************************************************************)
(* BuildDir.remember                                                       *)
(***************************************************************************)
\* for dep in self.sources: dep.remember(self.hash_cache)
RememberSources(map, cont) ==
    Update(map, [k \in {hex(s) : s \in Sources} |->
                    LET s == CHOOSE x \in Sources : hex(x) = k IN StrippedHashes[s][cont[s]]])

\* CompileObject.remember on the run r = [map, err]: a ParsingException
\* leaves the map alone, any other exception ends the run.
CompileObjectRemember(o, r, cont) ==
    LET g == Graphs[o][cont]
    IN  CASE r.err # "none" -> r
          [] g.err = "none" ->
                [r EXCEPT !.map = Update(@, [k \in {construct_hex(o, n) : n \in g.names} |->
                    LET n == CHOOSE x \in g.names : construct_hex(o, x) = k
                    IN  g.hash[n]])]
          [] g.err = "ParsingException" -> r
          [] OTHER -> [r EXCEPT !.err = g.err]

RECURSIVE RememberObjects(_, _, _)
RememberObjects(objs, r, cont) ==
    IF objs = <<>> THEN r
    ELSE RememberObjects(Tail(objs), CompileObjectRemember(Head(objs), r, cont), cont)

RECURSIVE RememberTargets(_, _, _)
\* for target in self.targets.values(): target.remember()
RememberTargets(ts, r, cont) ==
    IF ts = {} THEN r
    ELSE LET t == CHOOSE x \in ts : TRUE
         IN  RememberTargets(ts \ {t}, RememberObjects(TargetObjects(t), r, cont), cont)

BuildDirRemember(file, cont) ==
    RememberTargets(Targets,
                    [map |-> RememberSources(IF file.exists THEN file.map ELSE EmptyCache, cont),
                     err |-> "none"],
                    cont)


(***************************************************************************)
(* Source text.  A string is a sequence of characters, a text the sequence *)
(* of its lines as splitlines(True) and readlines() give them: every line  *)
(* but the last ends in "\n", and the last may.  Positions count from 1,   *)
(* and 0 stands for the -1 of str.find.                                    *)
(***************************************************************************)
Whitespace == {" ", "\n", "\r"}

\* str.find(sub, i)
Find(s, sub, i) ==
    LET hits == {j \in i..(Len(s) - Len(sub) + 1) : SubSeq(s, j, j + Len(sub) - 1) = sub}
    IN  IF hits = {} THEN 0 ELSE CHOOSE j \in hits : \A k \in hits : j <= k

RECURSIVE Join(_)
\* ' '.join(chunks)
Join(chunks) ==
    IF chunks = <<>> THEN <<>>
    ELSE IF Len(chunks) = 1 THEN chunks[1]
    ELSE chunks[1] \o <<" ">> \o Join(Tail(chunks))

RECURSIVE Split(_, _)
\* str.split(): the words of s, cur being the word begun.
Split(s, cur) ==
    IF s = <<>> THEN (IF cur = <<>> THEN <<>> ELSE <<cur>>)
    ELSE IF Head(s) \in Whitespace
         THEN (IF cur = <<>> THEN <<>> ELSE <<cur>>) \o Split(Tail(s), <<>>)
         ELSE Split(Tail(s), Append(cur, Head(s)))

EndsWithNewline(s) == s # <<>> /\ s[Len(s)] = "\n"

RECURSIVE ScanBlocks(_, _, _, _)
\* The while loop of SourceContent.strip_comments on the raw line s from
\* position i: the chunks outside block comments, and whether the line
\* ends inside a block comment.
ScanBlocks(s, i, in_block, chunks) ==
    IF in_block
    THEN LET end_index == Find(s, <<"*", "/">>, i)
         IN  IF end_index = 0 THEN [chunks |-> chunks, in_block |-> TRUE]
             ELSE ScanBlocks(s, end_index + 2, FALSE, chunks)
    ELSE LET start_index == Find(s, <<"/", "*">>, i)
         IN  IF start_index = 0
             THEN [chunks |-> Append(chunks, SubSeq(s, i, Len(s))), in_block |-> FALSE]
             ELSE ScanBlocks(s, start_index + 2, TRUE, Append(chunks, SubSeq(s, i, start_index - 1)))

\* The rest of the loop body of strip_comments without its last if
\* statement: the "\n" that a comment took away is not put back.
UncommentedNoNewline(raw, chunks) ==
    LET unblocked == Join(chunks)
        line_comment_start == Find(unblocked, <<"/", "/">>, 1)
    IN  IF line_comment_start = 0 THEN unblocked
        ELSE SubSeq(unblocked, 1, line_comment_start - 1)

\* The rest of the loop body of strip_comments: line.uncommented.
Uncommented(raw, chunks) ==
    LET unblocked == Join(chunks)
        line_comment_start == Find(unblocked, <<"/", "/">>, 1)
        uncommented == IF line_comment_start = 0 THEN unblocked
                       ELSE SubSeq(unblocked, 1, line_comment_start - 1)
    IN  IF EndsWithNewline(raw) /\ ~EndsWithNewline(uncommented)
        THEN Append(uncommented, "\n") ELSE uncommented

RECURSIVE strip_comments(_, _)
\* SourceContent.strip_comments: the uncommented form of every line.
strip_comments(lines, in_block) ==
    IF lines = <<>> THEN <<>>
    ELSE LET scan == ScanBlocks(Head(lines), 1, in_block, <<>>)
         IN  <<Uncommented(Head(lines), scan.chunks)>>
                 \o strip_comments(Tail(lines), scan.in_block)

\* Line.stripped
stripped(uncommented) ==
    IF EndsWithNewline(uncommented)
    THEN Append(Join(Split(uncommented, <<>>)), "\n")
    ELSE Join(Split(uncommented, <<>>))

\* str.strip() of a stripped line: what is left is the final newline.
strip(s) == IF EndsWithNewline(s) THEN SubSeq(s, 1, Len(s) - 1) ELSE s

\* SourceContent.stripped_hash
SourceContentStrippedHash(lines) ==
    LET unc == strip_comments(lines, FALSE)
        kept == SelectSeq([i \in DOMAIN unc |-> stripped(unc[i])], LAMBDA l : l # <<"\n">>)
    IN  iter_hash([i \in DOMAIN kept |-> strip(kept[i])])

(***************************************************************************)
(* State.                                                                  *)
(*   content, srcMtime      version and time of every source file          *)
(*   objMtime, tgtMtime     time of every object and target file (0: none) *)
(*   otherMtime             time of the other dependencies (make files)    *)
(*   cacheFile              the zen_cache file                             *)
(*   clock, edits           the time, and the number of edits made         *)
(*   pc                     "idle", "meditate" (BuildDir.meditate is in    *)
(*                          its loop over todo) or "done" (a run of zen    *)
(*                          has ended, cmd says which task it ran)         *)
(*   objStatus, tgtStatus, hashCache, log, called, err   the run of zen    *)
(*   pre                    the object and target times when the run began *)
(*   remembered             the versions at the last completed remember    *)
(*                          (0: none)                                      *)
(*   original, edited       two source texts, for the properties of        *)
(*                          SourceContent.stripped_hash                    *)
(*   kinds, textEdits       the kinds and the number of the edits that     *)
(*                          made edited from original                      *)
(*   textHashes             <<>>, or the stripped_hash of the two texts    *)
(*   fnBody, fnConstructs   the statements of the body of a function       *)
(*                          definition, and the names of a dict of         *)
(*                          constructs                                     *)
(*   fnUsed                 <<>>, or the keys that used_constructs of the  *)
(*                          definition returned for the dict               *)
(*   posSource              <<>>, or a source: its raw lines and the form  *)
(*                          in which positions count its characters        *)
(*   posCall                the last call made on the source, its          *)
(*                          arguments and result                           *)
(***************************************************************************)
VARIABLES dirs, content, srcMtime, objMtime, tgtMtime, otherMtime, cacheFile, clock, edits,
          pc, cmd, todo, objStatus, tgtStatus, hashCache, log, called, err,
          pre, remembered,
          original, edited, kinds, textEdits, textHashes,
          fnBody, fnConstructs, fnUsed,
          posSource, posCall

files == <<dirs, content, srcMtime, objMtime, tgtMtime, otherMtime, cacheFile, clock, edits>>

process == <<pc, cmd, todo, objStatus, tgtStatus, hashCache, log, called, err, pre>>

buildVars == <<files, process, remembered>>

textVars == <<original, edited, kinds, textEdits, textHashes>>

fnVars == <<fnBody, fnConstructs, fnUsed>>

posVars == <<posSource, posCall>>

vars == <<buildVars, textVars, fnVars, posVars>>

\* The run of zen so far, as the record the operators above take.
Run ==
    [ostat |-> objStatus, tstat |-> tgtStatus, omt |-> objMtime, tmt |-> tgtMtime,
     hc |-> hashCache, log |-> log, called |-> called, err |-> err]

\* A BuildDir as __init__ leaves it.
NewBuildDir ==
    /\ objStatus' = [o \in Objects |-> UNCHECKED]
    /\ tgtStatus' = [t \in Targets |-> UNCHECKED]
    /\ hashCache' = [loaded |-> FALSE, map |-> EmptyCache]
    /\ log' = <<>>
    /\ called' = {}

NoProcess ==
    /\ err' = "none"
    /\ pc' = "idle"
    /\ cmd' = "none"
    /\ todo' = {}
    /\ pre' = [omt |-> [o \in Objects |-> 0], tmt |-> [t \in Targets |-> 0]]
    /\ NewBuildDir

\* No text is under study.
NoText ==
    /\ original = <<>>
    /\ edited = <<>>
    /\ kinds = {}
    /\ textEdits = 0
    /\ textHashes = <<>>

BuildInit ==
    /\ dirs \in TargetDirs
    /\ content = [s \in Sources |-> 1]
    /\ srcMtime = [s \in Sources |-> 1]
    /\ objMtime = [o \in Objects |-> 0]
    /\ tgtMtime = [t \in Targets |-> 0]
    /\ otherMtime = [d \in Others |-> 1]
    /\ cacheFile = [exists |-> FALSE, map |-> EmptyCache]
    /\ clock = 1
    /\ edits = 0
    /\ pc = "idle"
    /\ cmd = "none"
    /\ todo = {}
    /\ objStatus = [o \in Objects |-> UNCHECKED]
    /\ tgtStatus = [t \in Targets |-> UNCHECKED]
    /\ hashCache = [loaded |-> FALSE, map |-> EmptyCache]
    /\ log = <<>>
    /\ called = {}
    /\ err = "none"
    /\ pre = [omt |-> [o \in Objects |-> 0], tmt |-> [t \in Targets |-> 0]]
    /\ remembered = [s \in Sources |-> 0]

\* No function definition is under study.
NoFn ==
    /\ fnBody = <<>>
    /\ fnConstructs = {}
    /\ fnUsed = <<>>

\* No source is under study for its positions.
NoPos ==
    /\ posSource = <<>>
    /\ posCall = <<>>

Init == BuildInit /\ NoText /\ NoFn /\ NoPos

(***************************************************************************)
(* The environment: the developer and make, between runs of zen.           *)
(***************************************************************************)
\* Source s is saved with the text of version v (its own: saved unchanged).
Edit(s, v, adv) ==
    /\ pc # "meditate"
    /\ edits < MaxEdits
    /\ clock + adv <= MaxClock
    /\ content' = [content EXCEPT ![s] = v]
    /\ srcMtime' = [srcMtime EXCEPT ![s] = clock + adv]
    /\ clock' = clock + adv
    /\ edits' = edits + 1
    /\ NoProcess
    /\ UNCHANGED <<dirs, objMtime, tgtMtime, otherMtime, cacheFile, remembered>>
    /\ UNCHANGED <<textVars, fnVars, posVars>>

\* The make files are regenerated.
TouchOther(d, adv) ==
    /\ pc # "meditate"
    /\ clock + adv <= MaxClock
    /\ otherMtime[d] < clock + adv
    /\ otherMtime' = [otherMtime EXCEPT ![d] = clock + adv]
    /\ clock' = clock + adv
    /\ NoProcess
    /\ UNCHANGED <<dirs, content, srcMtime, objMtime, tgtMtime, cacheFile, edits, remembered>>
    /\ UNCHANGED <<textVars, fnVars, posVars>>

\* make: what is missing or older than something it is made from is made.
Make(adv) ==
    LET now == clock + adv
        omt == [o \in Objects |->
                   IF objMtime[o] = 0
                      \/ \E i \in DOMAIN ObjSources(o) : srcMtime[ObjSources(o)[i]] > objMtime[o]
                   THEN now ELSE objMtime[o]]
        Stale(t, tmt) ==
            \/ tgtMtime[t] = 0
            \/ \E i \in DOMAIN TargetObjects(t) : omt[TargetObjects(t)[i]] > tgtMtime[t]
            \/ \E l \in lib_dependencies(t) : tmt[l] > tgtMtime[t]
            \/ \E d \in other_dependencies(t) : otherMtime[d] > tgtMtime[t]
        libs == [t \in Targets |->
                   IF lib_dependencies(t) = {} /\ Stale(t, tgtMtime) THEN now ELSE tgtMtime[t]]
        tmt == [t \in Targets |->
                   IF lib_dependencies(t) # {} /\ Stale(t, libs) THEN now ELSE libs[t]]
    IN  /\ pc # "meditate"
        /\ now <= MaxClock
        /\ omt # objMtime \/ tmt # tgtMtime
        /\ objMtime' = omt
        /\ tgtMtime' = tmt
        /\ clock' = now
        /\ NoProcess
        /\ UNCHANGED <<dirs, content, srcMtime, otherMtime, cacheFile, edits, remembered>>
        /\ UNCHANGED <<textVars, fnVars, posVars>>

(***************************************************************************)
(* zen                                                                     *)
(***************************************************************************)
\* main: BuildDir(build_dir), task 'meditate'.
MeditateStart ==
    /\ pc # "meditate"
    /\ err' = BuildDirInit(dirs)
    /\ pc' = IF BuildDirInit(dirs) = "none" THEN "meditate" ELSE "done"
    /\ cmd' = "meditate"
    /\ todo' = IF BuildDirInit(dirs) = "none" THEN Targets ELSE {}
    /\ pre' = [omt |-> objMtime, tmt |-> tgtMtime]
    /\ NewBuildDir
    /\ UNCHANGED <<files, remembered>>
    /\ UNCHANGED <<textVars, fnVars, posVars>>

\* BuildDir.meditate: target.meditate() for the next target of the dict.
\* An exception ends the run.
MeditateStep(t) ==
    /\ pc = "meditate"
    /\ t \in todo
    /\ \E r \in {TargetMeditate(t, Run, content, srcMtime, otherMtime, cacheFile, clock)} :
           /\ objStatus' = r.ostat
           /\ tgtStatus' = r.tstat
           /\ objMtime' = r.omt
           /\ tgtMtime' = r.tmt
           /\ hashCache' = r.hc
           /\ log' = r.log
           /\ called' = r.called
           /\ err' = r.err
           /\ todo' = IF r.err # "none" THEN {} ELSE todo \ {t}
           /\ pc' = IF r.err # "none" \/ todo = {t} THEN "done" ELSE "meditate"
    /\ UNCHANGED <<dirs, content, srcMtime, otherMtime, cacheFile, clock, edits, cmd, pre, remembered>>
    /\ UNCHANGED <<textVars, fnVars, posVars>>

\* BuildDir.meditate is called once more on the BuildDir whose meditate
\* has returned.
MeditateAgain ==
    /\ pc = "done"
    /\ cmd = "meditate"
    /\ err = "none"
    /\ pc' = "meditate"
    /\ todo' = Targets
    /\ UNCHANGED <<files, remembered, cmd, objStatus, tgtStatus, hashCache, log, called, err, pre>>
    /\ UNCHANGED <<textVars, fnVars, posVars>>

\* main: BuildDir(build_dir), task 'remember'.
Remember ==
    /\ pc # "meditate"
    /\ ~(pc = "done" /\ cmd = "remember")
    /\ \/ /\ BuildDirInit(dirs) = "none"
          /\ \E r \in {BuildDirRemember(cacheFile, content)} :
                /\ cacheFile' = IF r.err = "none" THEN [exists |-> TRUE, map |-> r.map]
                                 ELSE cacheFile
                /\ remembered' = IF r.err = "none" THEN content ELSE remembered
                /\ hashCache' = [loaded |-> TRUE, map |-> r.map]
                /\ err' = r.err
       \/ /\ BuildDirInit(dirs) # "none"
          /\ err' = BuildDirInit(dirs)
          /\ hashCache' = [loaded |-> FALSE, map |-> EmptyCache]
          /\ UNCHANGED <<cacheFile, remembered>>
    /\ pc' = "done"
    /\ cmd' = "remember"
    /\ todo' = {}
    /\ pre' = [omt |-> objMtime, tmt |-> tgtMtime]
    /\ objStatus' = [o \in Objects |-> UNCHECKED]
    /\ tgtStatus' = [t \in Targets |-> UNCHECKED]
    /\ log' = <<>>
    /\ called' = {}
    /\ UNCHANGED <<dirs, content, srcMtime, objMtime, tgtMtime, otherMtime, clock, edits>>
    /\ UNCHANGED <<textVars, fnVars, posVars>>

Next ==
    \/ \E s \in Sources : \E v \in Versions(s) : \E adv \in {0, 1} : Edit(s, v, adv)
    \/ \E d \in Others : \E adv \in {0, 1} : TouchOther(d, adv)
    \/ \E adv \in {0, 1} : Make(adv)
    \/ MeditateStart
    \/ \E t \in Targets : MeditateStep(t)
    \/ MeditateAgain
    \/ Remember

Spec == Init /\ [][Next]_vars

(***************************************************************************)
(* Two texts under SourceContent.stripped_hash.  A text is written as a    *)
(* document: lines of pieces, a piece being code, whitespace, a string     *)
(* literal, a line comment or a block comment; nl says that the line ends  *)
(* in "\n".  The document says what in the text is comment; zen gets the   *)
(* characters.                                                             *)
(***************************************************************************)
MaxTextEdits == 2

Piece(k, s) == [k |-> k, s |-> s]

TextLine(ps, nl) == [ps |-> ps, nl |-> nl]

BaseDocuments ==
    {<<TextLine(<<Piece("code", <<"x", ";">>), Piece("ws", <<" ">>), Piece("line", <<"c">>)>>, TRUE),
       TextLine(<<Piece("code", <<"y", ";">>)>>, TRUE)>>,
     <<TextLine(<<Piece("code", <<"s", "=">>), Piece("str", <<"/", "/", "a">>),
                  Piece("code", <<";">>)>>, TRUE),
       TextLine(<<Piece("code", <<"y", ";">>)>>, TRUE)>>,
     <<TextLine(<<Piece("code", <<"x", ";">>), Piece("ws", <<" ">>), Piece("block", <<"c">>)>>, TRUE),
       TextLine(<<Piece("code", <<"y", ";">>)>>, FALSE)>>}

\* What an edit may write in a comment, as a token, in a string literal.
CommentTexts(k) == IF k = "line" THEN {<<"d">>, <<"/", "*">>} ELSE {<<"d">>, <<"/", "/">>}

Tokens == {<<"x", ";">>, <<"z", ";">>}

StringTexts == {<<"b">>, <<"/", "/", "b">>}

BlankTexts == {<<>>, <<Piece("ws", <<" ">>)>>}

\* The characters of a piece, of a line, and the lines of a document.
RenderPiece(p) ==
    CASE p.k = "line" -> <<"/", "/">> \o p.s
      [] p.k = "block" -> <<"/", "*">> \o p.s \o <<"*", "/">>
      [] p.k = "str" -> <<"\"">> \o p.s \o <<"\"">>
      [] OTHER -> p.s

RenderLine(l) ==
    Flatten([i \in DOMAIN l.ps |-> RenderPiece(l.ps[i])]) \o (IF l.nl THEN <<"\n">> ELSE <<>>)

Render(doc) == [i \in DOMAIN doc |-> RenderLine(doc[i])]

\* The tokens and string literals of a document, in order.
CodeOf(doc) ==
    Flatten([i \in DOMAIN doc |-> SelectSeq(doc[i].ps, LAMBDA p : p.k \in {"code", "str"})])

IsComment(p) == p.k \in {"line", "block"}

\* A line of whitespace only; a line of a line comment only.
IsBlankLine(l) == \A i \in DOMAIN l.ps : l.ps[i].k = "ws"

IsCommentLine(l) == Len(l.ps) = 1 /\ l.ps[1].k = "line"

\* Line l may be put at position p of doc: only the last line of a text
\* may lack the "\n", and a line without it is not empty.
MayInsert(doc, p, l) ==
    /\ p \in 1..(Len(doc) + 1)
    /\ p <= Len(doc) => l.nl
    /\ p = Len(doc) + 1 => doc[Len(doc)].nl
    /\ ~l.nl => RenderLine(l) # <<>>

InsertAt(doc, p, l) == SubSeq(doc, 1, p - 1) \o <<l>> \o SubSeq(doc, p, Len(doc))

RemoveAt(doc, p) == SubSeq(doc, 1, p - 1) \o SubSeq(doc, p + 1, Len(doc))

\* An edit of the given kind makes edited into doc.
TextEdit(kind, doc) ==
    /\ textHashes = <<>>
    /\ original # <<>>
    /\ textEdits < MaxTextEdits
    /\ edited' = doc
    /\ kinds' = kinds \cup {kind}
    /\ textEdits' = textEdits + 1
    /\ UNCHANGED <<original, textHashes, buildVars, fnVars, posVars>>

\* The developer rewrites a comment.
SetComment(l, i, c) ==
    /\ l \in DOMAIN edited
    /\ i \in DOMAIN edited[l].ps
    /\ IsComment(edited[l].ps[i])
    /\ c \in CommentTexts(edited[l].ps[i].k)
    /\ c # edited[l].ps[i].s
    /\ TextEdit("comment", [edited EXCEPT ![l].ps[i].s = c])

\* The developer ends a line with a line comment, or removes the one it
\* ends with.
AddLineComment(l, c) ==
    /\ l \in DOMAIN edited
    /\ edited[l].ps # <<>>
    /\ edited[l].ps[Len(edited[l].ps)].k # "line"
    /\ TextEdit("comment", [edited EXCEPT ![l].ps = Append(@, Piece("line", c))])

RemoveLineComment(l) ==
    /\ l \in DOMAIN edited
    /\ Len(edited[l].ps) > 1
    /\ edited[l].ps[Len(edited[l].ps)].k = "line"
    /\ TextEdit("comment", [edited EXCEPT ![l].ps = SubSeq(@, 1, Len(@) - 1)])

\* The developer inserts or removes a line that is a comment.
InsertCommentLine(p, c, nl) ==
    /\ MayInsert(edited, p, TextLine(<<Piece("line", c)>>, nl))
    /\ TextEdit("comment", InsertAt(edited, p, TextLine(<<Piece("line", c)>>, nl)))

RemoveCommentLine(p) ==
    /\ p \in DOMAIN edited
    /\ IsCommentLine(edited[p])
    /\ TextEdit("comment", RemoveAt(edited, p))

\* The developer inserts or removes a line of whitespace.
InsertBlankLine(p, ws, nl) ==
    /\ MayInsert(edited, p, TextLine(ws, nl))
    /\ TextEdit("blank", InsertAt(edited, p, TextLine(ws, nl)))

RemoveBlankLine(p) ==
    /\ p \in DOMAIN edited
    /\ IsBlankLine(edited[p])
    /\ TextEdit("blank", RemoveAt(edited, p))

\* The developer changes a token or the content of a string literal.
SetToken(l, i, t) ==
    /\ l \in DOMAIN edited
    /\ i \in DOMAIN edited[l].ps
    /\ \/ edited[l].ps[i].k = "code" /\ t \in Tokens /\ Len(edited[l].ps[i].s) = 2
       \/ edited[l].ps[i].k = "str" /\ t \in StringTexts
    /\ t # edited[l].ps[i].s
    /\ TextEdit("token", [edited EXCEPT ![l].ps[i].s = t])

\* SourceContent(text).stripped_hash for both texts.
HashTexts ==
    /\ original # <<>>
    /\ textHashes = <<>>
    /\ textHashes' = <<SourceContentStrippedHash(Render(original)),
                       SourceContentStrippedHash(Render(edited))>>
    /\ UNCHANGED <<original, edited, kinds, textEdits, buildVars, fnVars, posVars>>

TextInit ==
    /\ BuildInit
    /\ dirs = Targets
    /\ original \in BaseDocuments
    /\ edited = original
    /\ kinds = {}
    /\ textEdits = 0
    /\ textHashes = <<>>
    /\ NoFn
    /\ NoPos

MaxTextLines == 4

TextNext ==
    \/ \E l \in 1..MaxTextLines : \E i \in 1..3 : \E c \in CommentTexts("line") \cup CommentTexts("block") :
           SetComment(l, i, c)
    \/ \E l \in 1..MaxTextLines : \E c \in CommentTexts("line") : AddLineComment(l, c)
    \/ \E l \in 1..MaxTextLines : RemoveLineComment(l)
    \/ \E p \in 1..MaxTextLines : \E c \in CommentTexts("line") : \E nl \in BOOLEAN :
           InsertCommentLine(p, c, nl)
    \/ \E p \in 1..MaxTextLines : RemoveCommentLine(p)
    \/ \E p \in 1..MaxTextLines : \E ws \in BlankTexts : \E nl \in BOOLEAN : InsertBlankLine(p, ws, nl)
    \/ \E p \in 1..MaxTextLines : RemoveBlankLine(p)
    \/ \E l \in 1..MaxTextLines : \E i \in 1..3 : \E t \in Tokens \cup StringTexts : SetToken(l, i, t)
    \/ HashTexts

SpecText == TextInit /\ [][TextNext]_vars

(***************************************************************************)
(* A function definition under FunctionDefinition.used_constructs.  The    *)
(* definition is  int main(T a) { ... }  and its body a sequence of        *)
(* statements, each of one of four forms:                                  *)
(*     n();                                      a statement               *)
(*     if (limit) { ... }                        a control block           *)
(*     auto f = [](int a) { return n(a); };      a lambda, not an argument *)
(*     int inner(int a) { return 0; }            a function definition     *)
(* toks are the identifiers of the statement outside the braces of a       *)
(* control block, body the statements inside them.                         *)
(***************************************************************************)
MaxBody == 2

MaxDepth == 2

FnNames == {"main", "hello", "helper", "limit", "T"}

Statement(form, text, toks, body) == [form |-> form, text |-> text, toks |-> toks, body |-> body]

CallStatement(n) == Statement("statement", <<n \o "();">>, {n}, <<>>)

LambdaStatement(n) ==
    Statement("lambda", <<"auto f = [](int a) { return " \o n \o "(a); };">>,
              {"auto", "f", "int", "a", "return", n}, <<>>)

NestedStatement(n) ==
    Statement("nested", <<"int " \o n \o "(int a) { return 0; }">>,
              {"int", n, "a", "return"}, <<>>)

IfStatement(body) ==
    Statement("control",
              <<"if (limit) {">> \o Flatten([i \in DOMAIN body |-> body[i].text]) \o <<"}">>,
              {"if", "limit"}, body)

RECURSIVE Depth(_)
Depth(st) == IF st.form = "control" THEN 1 + Depth(st.body[1]) ELSE 0

RECURSIVE Identifiers(_)
\* The identifiers that occur in the statements, at any depth.
Identifiers(body) ==
    UNION {body[i].toks \cup Identifiers(body[i].body) : i \in DOMAIN body}

RECURSIVE BlockSubComponents(_, _)
\* Block.sub_components: Component.create on the rest of the block until
\* it raises ComponentCreationError.  In the scope of a function a
\* statement is a MiscStatement, and at the braces of a lambda that is
\* not inside parentheses create finds no component and raises; the
\* block of a control block has the scope of a class, where a call is a
\* MemberFunctionDeclaration.
BlockSubComponents(body, scope) ==
    IF body = <<>> THEN <<>>
    ELSE LET st == Head(body)
         IN  CASE st.form = "statement" /\ scope = "FUNC" ->
                      <<Comp("MiscStatement", "", st.text, st.toks, <<>>, <<>>)>>
                          \o BlockSubComponents(Tail(body), scope)
               [] st.form = "statement" ->
                      <<Comp("MemberFunctionDeclaration", CHOOSE n \in st.toks : TRUE,
                             st.text, st.toks, <<>>, <<>>)>>
                          \o BlockSubComponents(Tail(body), scope)
               [] st.form = "control" ->
                      <<Comp("ControlBlock", "", st.text, st.toks, <<"if (limit)">>,
                             BlockSubComponents(st.body, "CLASS"))>>
                          \o BlockSubComponents(Tail(body), scope)
               [] OTHER -> <<>>

\* The exception that leaves Block.sub_components of the block of a
\* function: Component.create raises ParsingException at the braces of a
\* function definition, when the scan reaches it, that is when no lambda
\* stopped the scan before.
BlockError(body) ==
    IF \E i \in DOMAIN body :
           /\ body[i].form = "nested"
           /\ \A j \in 1..(i - 1) : body[j].form # "lambda"
    THEN "ParsingException" ELSE "none"

\* FunctionDefinition(chunk) for  int main(T a) { body }
FunctionDefinition(body) ==
    Comp("FunctionDefinition", "main",
         <<"int main(T a) {">> \o Flatten([i \in DOMAIN body |-> body[i].text]) \o <<"}">>,
         {"int", "main", "T", "a"}, <<"int main(T a)">>,
         BlockSubComponents(body, "FUNC"))

\* The statement of the form that names n.
StatementOf(form, n) ==
    CASE form = "statement" -> CallStatement(n)
      [] form = "lambda" -> LambdaStatement(n)
      [] OTHER -> NestedStatement(n)

\* A statement is added to the body of the definition.
AddStatement(form, n) ==
    /\ fnUsed = <<>>
    /\ Len(fnBody) < MaxBody
    /\ fnBody' = Append(fnBody, StatementOf(form, n))
    /\ UNCHANGED <<fnConstructs, fnUsed, buildVars, textVars, posVars>>

\* The last statement of the body is put in a control block.
WrapInIf ==
    /\ fnUsed = <<>>
    /\ fnBody # <<>>
    /\ fnBody[Len(fnBody)].form \notin {"lambda", "nested"}
    /\ Depth(fnBody[Len(fnBody)]) < MaxDepth
    /\ fnBody' = [fnBody EXCEPT ![Len(fnBody)] = IfStatement(<<@>>)]
    /\ UNCHANGED <<fnConstructs, fnUsed, buildVars, textVars, posVars>>

\* definition.used_constructs(constructs).keys(), with the sub-components
\* of the block of the definition that it went through, or the exception
\* that it raised.
UsedConstructs ==
    /\ fnUsed = <<>>
    /\ fnUsed' = <<[err |-> BlockError(fnBody),
                     block |-> IF BlockError(fnBody) = "none"
                               THEN BlockSubComponents(fnBody, "FUNC") ELSE <<>>,
                     used |-> IF BlockError(fnBody) = "none"
                              THEN used_constructs(FunctionDefinition(fnBody), fnConstructs)
                              ELSE {}]>>
    /\ UNCHANGED <<fnBody, fnConstructs, buildVars, textVars, posVars>>

FnInit ==
    /\ BuildInit
    /\ dirs = Targets
    /\ NoText
    /\ fnBody = <<>>
    /\ fnConstructs \in SUBSET FnNames
    /\ fnUsed = <<>>
    /\ NoPos

FnNext ==
    \/ \E n \in {"main", "hello"} : AddStatement("statement", n)
    \/ \E n \in {"helper"} : AddStatement("lambda", n)
    \/ \E n \in {"inner"} : AddStatement("nested", n)
    \/ WrapInIf
    \/ UsedConstructs

SpecFn == FnInit /\ [][FnNext]_vars

(***************************************************************************)
(* Positions in a source.  A source is SourceContent(text) for a str: its  *)
(* raw lines are those of splitlines(True), which ends a line at "\n" and  *)
(* at "\r" alike.  A position is a SourcePos of one form: line_i counts    *)
(* the lines from 1 and col_i the characters of the line from 0.           *)
(***************************************************************************)
PosTexts ==
    {<< <<"a", "b", "\n">>, <<"c", "d">> >>,
     << <<"a", "\n">>, <<"\n">>, <<"b", " ", "/", "/", "c", "\n">> >>,
     << <<"a", "\n">>, <<"/", "/", "c", "\r">>, <<"d">> >>}

SourceForms == {"RAW", "UNCOMMENTED", "STRIPPED"}

\* Line.s(form) for every line of the source.
LineS(src) ==
    LET unc == strip_comments(src.lines, FALSE)
    IN  CASE src.form = "RAW" -> src.lines
          [] src.form = "UNCOMMENTED" -> unc
          [] OTHER -> [i \in DOMAIN unc |-> stripped(unc[i])]

\* len(line.s(form)) for every line.
LineLens(src) == [i \in DOMAIN src.lines |-> Len(LineS(src)[i])]

Pos(line_i, col_i) == [err |-> "none", line_i |-> line_i, col_i |-> col_i]

PosError(e) == [err |-> e, line_i |-> 0, col_i |-> 0]

\* SourcePos.__init__ for a line and a column index that are not negative:
\* the end of a line that is not the last is the start of the next.
SourcePosInit(lens, line_i, col_i) ==
    IF line_i \notin DOMAIN lens \/ col_i \notin 0..lens[line_i] THEN PosError("IndexError")
    ELSE IF col_i = lens[line_i] /\ line_i < Len(lens) THEN Pos(line_i + 1, 0)
    ELSE Pos(line_i, col_i)

RECURSIVE AddLoop(_, _, _)
\* The for loop of SourcePos.__add__ from line i on, n characters to go.
AddLoop(lens, i, n) ==
    IF i > Len(lens) THEN PosError("ValueError")
    ELSE IF n <= lens[i] THEN SourcePosInit(lens, i, n)
    ELSE AddLoop(lens, i + 1, n - lens[i])

RECURSIVE SubLoop(_, _, _)
\* The for loop of SourcePos.__sub__ from line i back, n characters to go.
SubLoop(lens, i, n) ==
    IF i < 1 THEN PosError("ValueError")
    ELSE IF n <= lens[i] THEN SourcePosInit(lens, i, lens[i] - n)
    ELSE SubLoop(lens, i - 1, n - lens[i])

\* SourcePos.__add__ and SourcePos.__sub__ for n >= 0
AddForward(lens, p, n) ==
    IF n <= lens[p.line_i] - p.col_i THEN SourcePosInit(lens, p.line_i, p.col_i + n)
    ELSE AddLoop(lens, p.line_i + 1, n - (lens[p.line_i] - p.col_i))

SubBackward(lens, p, n) ==
    IF n <= p.col_i THEN SourcePosInit(lens, p.line_i, p.col_i - n)
    ELSE SubLoop(lens, p.line_i - 1, n - p.col_i)

\* SourcePos.__add__
SourcePosAdd(lens, p, n) == IF n < 0 THEN SubBackward(lens, p, -n) ELSE AddForward(lens, p, n)

\* SourcePos.__sub__
SourcePosSub(lens, p, n) == IF n < 0 THEN AddForward(lens, p, -n) ELSE SubBackward(lens, p, n)

\* The largest number added to a position or subtracted from it.
MaxStep == 8

\* SourceContent(text), and the form of the positions made in it.
NewSource(text, form) ==
    /\ posSource = <<>>
    /\ posSource' = [lines |-> text, form |-> form]
    /\ UNCHANGED <<posCall, buildVars, textVars, fnVars>>

\* p = SourcePos(source, line_i, col_i, form); q = p + n; q - n
Add(line_i, col_i, n) ==
    /\ posSource # <<>>
    /\ posCall = <<>>
    /\ \E lens \in {LineLens(posSource)} : \E p \in {SourcePosInit(lens, line_i, col_i)} :
           /\ p.err = "none"
           /\ \E q \in {SourcePosAdd(lens, p, n)} :
                  posCall' = [op |-> "add", p |-> p, n |-> n, r |-> q,
                              back |-> IF q.err = "none" THEN SourcePosSub(lens, q, n) ELSE q]
    /\ UNCHANGED <<posSource, buildVars, textVars, fnVars>>

PosInit ==
    /\ BuildInit
    /\ dirs = Targets
    /\ NoText
    /\ NoFn
    /\ NoPos

PosNext ==
    \/ \E text \in PosTexts : \E form \in SourceForms : NewSource(text, form)
    \/ \E line_i \in 1..3 : \E col_i \in 0..6 : \E n \in (-MaxStep)..MaxStep : Add(line_i, col_i, n)

SpecPos == PosInit /\ [][PosNext]_vars

(***************************************************************************)
(* Chunk.find_pair, on a chunk that is one line of a source in RAW form:   *)
(* s is the text of the chunk, and a position the index of a character of  *)
(* s, counted from 1.  find_pair is called with its default argument       *)
(* allow_semicolon=True.                                                   *)
(***************************************************************************)
BRACKETS == [c \in {"(", "{", "[", "<"} |->
                CASE c = "(" -> ")" [] c = "{" -> "}" [] c = "[" -> "]" [] OTHER -> ">"]

Quotes == {"'", "\""}

PairResult(e, q) == [err |-> e, q |-> q]

RECURSIVE find_quote_end_unescaped(_, _, _, _)
\* Chunk.find_quote_end without its escaped flag: a quote that follows a
\* backslash ends the literal.
find_quote_end_unescaped(s, i, end_char, escaped) ==
    IF i > Len(s) THEN PairResult("None", 0)
    ELSE IF s[i] = "\n" THEN PairResult("ValueError", 0)
    ELSE IF s[i] = end_char THEN PairResult("none", i)
    ELSE find_quote_end_unescaped(s, i + 1, end_char, escaped)

RECURSIVE find_quote_end(_, _, _, _)
\* Chunk.find_quote_end, the for loop from the character at i on: the
\* position of the closing quote, ValueError at the end of the line, and
\* None when the chunk ends first.
find_quote_end(s, i, end_char, escaped) ==
    IF i > Len(s) THEN PairResult("None", 0)
    ELSE IF escaped THEN find_quote_end(s, i + 1, end_char, FALSE)
    ELSE IF s[i] = "\\" THEN find_quote_end(s, i + 1, end_char, TRUE)
    ELSE IF s[i] = "\n" THEN PairResult("ValueError", 0)
    ELSE IF s[i] = end_char THEN PairResult("none", i)
    ELSE find_quote_end(s, i + 1, end_char, escaped)

RECURSIVE FindPairLoop(_, _, _, _)
\* The while loop of Chunk.find_pair at position pos.  After a literal
\* that the chunk does not end, pos is None and "pos += 1" raises
\* TypeError.
FindPairLoop(s, pos, depth, begin_char) ==
    IF pos > Len(s) THEN PairResult("ParsingException", 0)
    ELSE LET c == s[pos]
             d == IF c = begin_char THEN depth + 1
                  ELSE IF c = BRACKETS[begin_char] THEN depth - 1
                  ELSE depth
         IN  IF c = BRACKETS[begin_char] /\ d = 0 THEN PairResult("none", pos)
             ELSE IF c \in Quotes
                  THEN LET e == find_quote_end(s, pos + 1, c, FALSE)
                       IN  IF e.err = "None" THEN PairResult("TypeError", 0)
                           ELSE IF e.err # "none" THEN e
                           ELSE FindPairLoop(s, e.q + 1, d, begin_char)
                  ELSE FindPairLoop(s, pos + 1, d, begin_char)

\* Chunk.find_pair
find_pair(s, start_pos) ==
    IF s[start_pos] \notin DOMAIN BRACKETS THEN PairResult("ValueError", 0)
    ELSE FindPairLoop(s, start_pos, 0, s[start_pos])

\* The characters of the chunks, and their greatest length.
PairChars == {"(", ")", "<", "\"", "'", "\\"}

MaxChunk == 6

\* The text of the source grows by a character.
AppendChar(c) ==
    /\ posSource # <<>>
    /\ posCall = <<>>
    /\ Len(posSource.lines[1]) < MaxChunk
    /\ posSource' = [posSource EXCEPT !.lines[1] = Append(@, c)]
    /\ UNCHANGED <<posCall, buildVars, textVars, fnVars>>

\* Chunk(SourceContent(text), form=RAW).find_pair(p)
FindPair(p) ==
    /\ posSource # <<>>
    /\ posCall = <<>>
    /\ p \in DOMAIN posSource.lines[1]
    /\ posCall' = [op |-> "find_pair", p |-> p, r |-> find_pair(posSource.lines[1], p)]
    /\ UNCHANGED <<posSource, buildVars, textVars, fnVars>>

PairInit ==
    /\ BuildInit
    /\ dirs = Targets
    /\ NoText
    /\ NoFn
    /\ posSource \in {[lines |-> <<<<c>>>>, form |-> "RAW"] : c \in PairChars}
    /\ posCall = <<>>

PairNext ==
    \/ \E c \in PairChars : AppendChar(c)
    \/ \E p \in 1..MaxChunk : FindPair(p)

SpecPair == PairInit /\ [][PairNext]_vars

(***************************************************************************)
(* Vocabulary of the properties.  A property speaks of an object once      *)
(* CompileObject.meditate has been called on it (o \in called): the call   *)
(* has then returned or raised.  The times of the object and target files  *)
(* are those the run found (pre); nothing else changes during a run.       *)
(***************************************************************************)
Touched(f) == \E i \in DOMAIN log : log[i] = f

\* Some source of o is newer than the object file.
SourcesNewer(o) ==
    /\ pre.omt[o] # 0
    /\ \E i \in DOMAIN ObjSources(o) : srcMtime[ObjSources(o)[i]] > pre.omt[o]

\* The cache as the run loads it.
FileMap == IF cacheFile.exists THEN cacheFile.map ELSE EmptyCache

\* A remember has completed, and the sources of o were decomposed without
\* error then, and are now.
Remembered == \A s \in Sources : remembered[s] # 0

ParsedThenAndNow(o) ==
    /\ Remembered
    /\ Graphs[o][remembered].err = "none"
    /\ Graphs[o][content].err = "none"

\* The text of the components that make up each construct of o.
ConstructText(o, cont) ==
    LET items == GraphItems(o, cont)
    IN  Table([n \in ConstructNames(items) |->
                 LET parts == ContentOf(items, n) IN [i \in DOMAIN parts |-> parts[i].lines]])

Texts == Table([o \in Objects |-> Table([c \in Contents |-> ConstructText(o, c)])])

\* The text of construct n of o changed between the contents c and d.
TextChanged(o, n, c, d) ==
    IF n \in DOMAIN Texts[o][c] /\ n \in DOMAIN Texts[o][d]
    THEN Texts[o][c][n] # Texts[o][d][n]
    ELSE n \in DOMAIN Texts[o][c] \/ n \in DOMAIN Texts[o][d]

RECURSIVE Closure(_, _)
\* The constructs reached from the set S through dependencies.
Closure(g, S) ==
    LET T == S \cup UNION {g.deps[n] : n \in S}
    IN  IF T = S THEN S ELSE Closure(g, T)

\* The constructs named by the components of the non-header sources of o,
\* directly or through the dependencies of a construct named there.
UsedTable(o, c) ==
    LET g == Graphs[o][c]
    IN  Closure(g, UNION {g.used[i] : i \in {k \in DOMAIN ObjSources(o) : ~is_header(ObjSources(o)[k])}})

Used == Table([o \in Objects |-> Table([c \in Contents |-> UsedTable(o, c)])])

\* The text of a used construct of o differs from the text remembered.
UsedTextChanged(o) ==
    \E n \in Used[o][content] : TextChanged(o, n, remembered, content)

\* Component.exposed_content and its overrides, as lines.
exposed_content(c) ==
    CASE c.kind \in {"NamespaceComponent", "MemberFunctionDefinition", "CppClassDefinition",
                     "ControlBlock"} -> c.prefix
      [] c.kind \in {"FunctionDeclaration", "FunctionDefinition"} -> <<>>
      [] OTHER -> c.lines

ExposedLines(s, v) ==
    LET comps == recursive_components(Components(s, v))
    IN  [i \in DOMAIN comps |-> exposed_content(comps[i])]

Exposed == Table([s \in Sources |-> Table([v \in Versions(s) |-> ExposedLines(s, v)])])

\* The exposed content of a component of a source of o differs from what
\* was remembered.
ExposedChanged(o) ==
    \E i \in DOMAIN ObjSources(o) :
        LET s == ObjSources(o)[i] IN Exposed[s][content[s]] # Exposed[s][remembered[s]]

\* The bodies of the operator member functions of the classes of a source.
OperatorBodyLines(s, v) ==
    LET comps == recursive_components(Components(s, v))
    IN  {<<comps[i].name, comps[i].inner[j].prefix, comps[i].inner[j].inner>> :
            <<i, j>> \in {p \in (DOMAIN comps) \X (1..4) :
                            /\ comps[p[1]].kind = "CppClassDefinition"
                            /\ p[2] \in DOMAIN comps[p[1]].inner
                            /\ comps[p[1]].inner[p[2]].kind = "MemberFunctionDefinition"
                            /\ comps[p[1]].inner[p[2]].name = "operator"}}

OperatorBodies == Table([s \in Sources |-> Table([v \in Versions(s) |-> OperatorBodyLines(s, v)])])

\* The body of an operator of a class of a header of o differs from what
\* was remembered.
OperatorBodyChanged(o) ==
    \E i \in DOMAIN ObjSources(o) :
        LET s == ObjSources(o)[i]
        IN  is_header(s) /\ OperatorBodies[s][content[s]] # OperatorBodies[s][remembered[s]]

\* The lines of a source that belong to no construct.
OutsideLines(s, v) ==
    LET comps == recursive_components(Components(s, v))
    IN  Flatten([i \in DOMAIN comps |-> IF construct_content(comps[i]) = <<>> THEN comps[i].lines ELSE <<>>])

Outside == Table([s \in Sources |-> Table([v \in Versions(s) |-> OutsideLines(s, v)])])

\* Since the last remember the text changed in headers of o only, and
\* there only in constructs that the non-header sources of o do not use.
OnlyUnusedHeaderChanges(o) ==
    /\ Remembered
    /\ \A i \in DOMAIN ObjSources(o) :
          LET s == ObjSources(o)[i]
          IN  IF is_header(s) THEN Outside[s][content[s]] = Outside[s][remembered[s]]
              ELSE StrippedHashes[s][content[s]] = StrippedHashes[s][remembered[s]]
    /\ \E i \in DOMAIN ObjSources(o) :
          LET s == ObjSources(o)[i]
          IN  StrippedHashes[s][content[s]] # StrippedHashes[s][remembered[s]]
    /\ \A n \in Used[o][content] \cup Used[o][remembered] : ~TextChanged(o, n, remembered, content)

\* The structural violations: a class body not followed by ';', a function
\* definition in a function body, a macro or a literal that never ends.
StructuralViolation(s, v) == s = "sample.h" /\ v \in 8..11

\* The run analyses the sources of o: they are modified and show changes.
Analysed(o) ==
    /\ sources_modified(o, pre.omt, srcMtime)
    /\ has_code_changes(o, content, FileMap)

(***************************************************************************)
(* The change decision of a compile object                                 *)
(***************************************************************************)
\* C1: an object with sources newer than its file, one of whose used
\* constructs (named by a component of a non-header source, or reached
\* from there through dependencies) has changed text since the last
\* remember, has status CHANGED and is not touched.
UsedConstructChangeIsChanged ==
    \A o \in called :
        (SourcesNewer(o) /\ ParsedThenAndNow(o) /\ UsedTextChanged(o))
            => (objStatus[o] = CHANGED /\ ~Touched(o))

\* C2: an object with sources newer than its file, a component of whose
\* sources has exposed content that differs from the last remember, has
\* status CHANGED.
ExposedChangeIsChanged ==
    \A o \in called :
        (SourcesNewer(o) /\ ParsedThenAndNow(o) /\ ExposedChanged(o))
            => objStatus[o] = CHANGED

\* C3: an object with sources newer than its file, a non-header source of
\* which has a stripped_hash that is not the cached one (or has none
\* cached), has status CHANGED.
StrippedHashChangeIsChanged ==
    \A o \in called :
        (/\ SourcesNewer(o)
         /\ \E i \in DOMAIN ObjSources(o) :
               LET s == ObjSources(o)[i]
               IN  /\ ~is_header(s)
                   /\ \/ hex(s) \notin DOMAIN FileMap
                      \/ FileMap[hex(s)] # StrippedHashes[s][content[s]])
            => objStatus[o] = CHANGED

\* C4: an object with sources newer than its file, in a header of which
\* the body of an operator of a class has changed since the last
\* remember, has status CHANGED.
OperatorBodyChangeIsChanged ==
    \A o \in called :
        (SourcesNewer(o) /\ ParsedThenAndNow(o) /\ OperatorBodyChanged(o))
            => objStatus[o] = CHANGED

\* Every source of o has the stripped_hash stored by the last remember.
AllHashesCached(o) ==
    /\ cacheFile.exists
    /\ \A i \in DOMAIN ObjSources(o) :
          LET s == ObjSources(o)[i]
          IN  /\ hex(s) \in DOMAIN cacheFile.map
              /\ cacheFile.map[hex(s)] = StrippedHashes[s][content[s]]

\* C5: an object with a source newer than its file, all of whose sources
\* have the stripped_hash stored by the last remember, has status
\* MINOR_CHANGE (never CHANGED) and its file is touched.
UnchangedTextIsMinorChange ==
    \A o \in called :
        (SourcesNewer(o) /\ AllHashesCached(o))
            => (objStatus[o] = MINOR_CHANGE /\ Touched(o) /\ objMtime[o] = clock)

\* C5 happens: sample.h was saved again with the text remembered.
UnchangedTextSeen ==
    /\ "main.o" \in called
    /\ pre.omt["main.o"] # 0
    /\ srcMtime["sample.h"] > pre.omt["main.o"]
    /\ AllHashesCached("main.o")
    /\ objStatus["main.o"] = MINOR_CHANGE
    /\ Touched("main.o")

StructuralViolationIsChanged ==
    \A o \in called :
        (/\ Analysed(o)
         /\ \E i \in DOMAIN ObjSources(o) :
               StructuralViolation(ObjSources(o)[i], content[ObjSources(o)[i]]))
            => (objStatus[o] = CHANGED /\ ~Touched(o) /\ err = "none")

\* C8: a run of meditate without a cache file does not fail, its cache is
\* the empty map, every object with a non-header source whose file is
\* missing or older than a source has status CHANGED, and nothing is
\* touched.
NoCacheFileIsChanged ==
    (pc = "done" /\ cmd = "meditate" /\ ~cacheFile.exists)
        => /\ err = "none"
           /\ hashCache.loaded => hashCache.map = EmptyCache
           /\ log = <<>>
           /\ \A o \in Objects :
                 (/\ \E i \in DOMAIN ObjSources(o) : ~is_header(ObjSources(o)[i])
                  /\ pre.omt[o] = 0 \/ SourcesNewer(o))
                     => objStatus[o] = CHANGED

\* C9: an object whose file exists and is older than no source has status
\* NO_CHANGE and is not touched.
NoNewerSourceIsNoChange ==
    \A o \in called :
        (/\ pre.omt[o] # 0
         /\ \A i \in DOMAIN ObjSources(o) : srcMtime[ObjSources(o)[i]] <= pre.omt[o])
            => (objStatus[o] = NO_CHANGE /\ ~Touched(o))

(***************************************************************************)
(* The status of a target                                                  *)
(***************************************************************************)
\* The statuses Target.meditate takes the maximum of, for the times the
\* run found.
StatusParts(t) ==
    {objStatus[TargetObjects(t)[i]] : i \in DOMAIN TargetObjects(t)}
        \cup {tgtStatus[l] : l \in lib_dependencies(t)}
        \cup {IF \E d \in other_dependencies(t) : otherMtime[d] > pre.tmt[t]
              THEN CHANGED ELSE NO_CHANGE}

\* C10: the status of a meditated target is CHANGED if its file is
\* missing, else the greatest of the statuses of its objects, of its
\* library targets and of its other dependencies; it is lower than the
\* status of none of its objects or libraries.
TargetStatusIsMaximum ==
    \A t \in Targets :
        tgtStatus[t] # UNCHECKED
            => /\ IF pre.tmt[t] = 0 THEN tgtStatus[t] = CHANGED
                  ELSE /\ tgtStatus[t] \in StatusParts(t)
                       /\ \A p \in StatusParts(t) : p <= tgtStatus[t]
               /\ \A i \in DOMAIN TargetObjects(t) : objStatus[TargetObjects(t)[i]] <= tgtStatus[t]
               /\ \A l \in lib_dependencies(t) : tgtStatus[l] <= tgtStatus[t]

\* C10 happens: app exists, its object is unchanged and its make file is
\* older, and it is CHANGED because its library is.
TargetStatusFromLibrarySeen ==
    /\ pc = "done"
    /\ err = "none"
    /\ pre.tmt["app"] # 0
    /\ objStatus["main.o"] = NO_CHANGE
    /\ tgtStatus["hello"] = CHANGED
    /\ \A d \in other_dependencies("app") : otherMtime[d] <= pre.tmt["app"]
    /\ tgtStatus["app"] = CHANGED

\* C11: in a run of meditate the output file of a target is touched if
\* and only if the status of the target is MINOR_CHANGE and its type is
\* known; and a build directory that holds a target of unknown type is
\* processed all the same.
TargetTouchedIffMinorChange ==
    cmd = "meditate"
        => /\ \A t \in Targets :
                 Touched(TargetOut(t))
                     <=> (tgtStatus[t] = MINOR_CHANGE /\ TargetType(t) # "UNKNOWN")
           /\ (pc = "done" /\ \E t \in dirs : TargetType(t) = "UNKNOWN")
                 => err # "AttributeError"

\* C12: in whatever order the targets are visited, when a target gets its
\* status every library target it depends on has its status already, and
\* that status does not change any more in the run.
LibrariesMeditatedFirst ==
    [][\A t \in Targets : \A l \in lib_dependencies(t) :
           /\ tgtStatus'[t] # UNCHECKED => tgtStatus'[l] # UNCHECKED
           /\ (pc = "meditate" /\ tgtStatus[l] # UNCHECKED) => tgtStatus'[l] = tgtStatus[l]]_vars

\* C12 happens: app was visited before hello, and both have a status.
DependentVisitedFirstSeen ==
    /\ pc = "meditate"
    /\ todo = {"hello"}
    /\ tgtStatus["app"] # UNCHECKED
    /\ tgtStatus["hello"] # UNCHECKED

(***************************************************************************)
(* remember                                                                *)
(***************************************************************************)
\* A step of remember on a build directory whose BuildDir is constructed.
\* (Only remember leaves cmd = "remember" in a step that changes anything.)
RememberStep == cmd' = "remember" /\ BuildDirInit(dirs) = "none"

\* The keys of the constructs of the objects whose graph is built from the
\* present sources.
GoodConstructKeys ==
    UNION {{construct_hex(o, n) : n \in Graphs[o][content].names} :
              o \in {x \in Objects : Graphs[x][content].err = "none"}}

\* C13: a remember during which the construct graph of an object fails on
\* a malformed source completes: the cache file is written, it holds the
\* stripped_hash of every source and the construct hashes of every other
\* object, and no construct hash of this run for the failing object.
RememberToleratesMalformedSource ==
    [][(RememberStep /\ \E o \in Objects : Graphs[o][content].err # "none")
          => /\ err' = "none"
             /\ cacheFile'.exists
             /\ \A s \in Sources :
                   /\ hex(s) \in DOMAIN cacheFile'.map
                   /\ cacheFile'.map[hex(s)] = StrippedHashes[s][content[s]]
             /\ \A o \in Objects : \A n \in Graphs[o][content].names :
                   Graphs[o][content].err = "none"
                       => /\ construct_hex(o, n) \in DOMAIN cacheFile'.map
                          /\ cacheFile'.map[construct_hex(o, n)] = Graphs[o][content].hash[n]
             /\ \A k \in DOMAIN cacheFile'.map :
                   (k \notin {hex(s) : s \in Sources} /\ k \notin GoodConstructKeys)
                       => (k \in DOMAIN FileMap /\ FileMap[k] = cacheFile'.map[k])]_vars
\* C14: after a remember in which the construct hashing of an object
\* failed, a run of meditate that ends normally gives that object, when
\* its sources are newer than its file, the status CHANGED.
FailedRememberIsChanged ==
    \A o \in called :
        (/\ err = "none"
         /\ SourcesNewer(o)
         /\ Remembered
         /\ Graphs[o][remembered].err # "none")
            => objStatus[o] = CHANGED
\* The fingerprints a call of remember adds to the map: the stripped_hash
\* of every source and the hash of every construct of every object whose
\* graph is built.
FingerprintsRecorded(map) ==
    /\ \A s \in Sources :
          hex(s) \in DOMAIN map /\ map[hex(s)] = StrippedHashes[s][content[s]]
    /\ \A o \in Objects : \A n \in Graphs[o][content].names :
          Graphs[o][content].err = "none"
              => /\ construct_hex(o, n) \in DOMAIN map
                 /\ map[construct_hex(o, n)] = Graphs[o][content].hash[n]

\* A step of zen changes no file but by touching: the sources and make
\* files keep text and time, and an object or target file whose time
\* changes existed and is among the files touched.
OnlyTouches ==
    /\ UNCHANGED <<content, srcMtime, otherMtime>>
    /\ \A o \in Objects :
          objMtime'[o] # objMtime[o] => (objMtime[o] # 0 /\ \E i \in DOMAIN log' : log'[i] = o)
    /\ \A t \in Targets :
          tgtMtime'[t] # tgtMtime[t]
              => (tgtMtime[t] # 0 /\ \E i \in DOMAIN log' : log'[i] = TargetOut(t))

CommentEditsKeepStrippedHash ==
    (textHashes # <<>> /\ kinds = {"comment"}) => textHashes[1] = textHashes[2]

\* C17: two texts that differ only by lines of whitespace, inserted or
\* removed anywhere, the last line with or without "\n" included, have
\* the same stripped_hash.
BlankLinesKeepStrippedHash ==
    (textHashes # <<>> /\ kinds = {"blank"}) => textHashes[1] = textHashes[2]

\* C18: two texts in which a token or a string literal differs have
\* different stripped_hash values (the hash of a line being taken as free
\* of collisions).
TokenChangeChangesStrippedHash ==
    (textHashes # <<>> /\ CodeOf(original) # CodeOf(edited)) => textHashes[1] # textHashes[2]

(***************************************************************************)
(* Chunk.content_hash and Construct.content_hash                           *)
(***************************************************************************)
\* C19: two chunks whose text differs on some line have different
\* content_hash values, and so the content_hash of a construct changes
\* whenever the text of one of its components does: between the sources
\* remembered and the sources now, a component of a construct whose lines
\* differ has another chunk hash, and a construct whose text differs has
\* another hash.
ChunkTextChangeChangesHash ==
    \A o \in Objects : ParsedThenAndNow(o) =>
        \A n \in DOMAIN Texts[o][remembered] \cap DOMAIN Texts[o][content] :
            LET was == Texts[o][remembered][n]
                now == Texts[o][content][n]
            IN  /\ \A i \in DOMAIN was \cap DOMAIN now :
                       was[i] # now[i] => content_hash(was[i]) # content_hash(now[i])
                /\ was # now =>
                       Graphs[o][remembered].hash[n] # Graphs[o][content].hash[n]

(***************************************************************************)
(* FunctionDefinition.used_constructs                                      *)
(***************************************************************************)
\* C20: used_constructs of a function definition returns exactly the
\* entries of the dict whose names occur as identifiers in the signature
\* or anywhere in the body, at any depth of nesting (inside control
\* blocks, in and after lambdas), other than the name of the function,
\* when it raises no exception.
UsedConstructsAreIdentifiersUsed ==
    (fnUsed # <<>> /\ fnUsed[1].err = "none") =>
        fnUsed[1].used = (({"int", "main", "T", "a"} \cup Identifiers(fnBody)) \cap fnConstructs) \ {"main"}

(***************************************************************************)
(* Construct.dependencies and Construct.recursive_dependencies             *)
(***************************************************************************)
RECURSIVE NamedBy(_)
\* The identifiers that the components name, at any depth, other than the
\* name each component defines.
NamedBy(comps) ==
    UNION {{t \in comps[i].toks : t # comps[i].name} \cup NamedBy(comps[i].inner) : i \in DOMAIN comps}

\* The other constructs that the content components of each construct of o
\* name.
NamedTable(o, cont) ==
    LET items == GraphItems(o, cont)
        names == ConstructNames(items)
    IN  Table([n \in names |-> (NamedBy(ContentOf(items, n)) \cap names) \ {n}])

Named == Table([o \in Objects |-> Table([c \in Contents |-> NamedTable(o, c)])])

\* C21: in the graph of an object, the dependencies of a construct are
\* the other constructs its content components name, and its
\* recursive_dependencies are the constructs reached from it in one or
\* more dependency steps, itself excluded, and are got without an error.
DependenciesAreReachableConstructs ==
    \A o \in Objects :
        LET g == Graphs[o][content]
        IN  g.err = "none" =>
                \A n \in g.names :
                    /\ g.deps[n] = Named[o][content][n]
                    /\ g.rdeps[n].err = "none"
                    /\ g.rdeps[n].deps = Closure(g, g.deps[n]) \ {n}

(***************************************************************************)
(* SourceContent.strip_comments                                            *)
(***************************************************************************)
RECURSIVE BlockStates(_, _)
\* For every line, whether strip_comments leaves it inside a block comment.
BlockStates(lines, in_block) ==
    IF lines = <<>> THEN <<>>
    ELSE LET scan == ScanBlocks(Head(lines), 1, in_block, <<>>)
         IN  <<scan.in_block>> \o BlockStates(Tail(lines), scan.in_block)

\* C22: strip_comments keeps the number of lines, and a line whose raw
\* text ends in "\n" ends in "\n" in its uncommented and in its stripped
\* form, also when it ends inside a block comment or in a line comment.
StripCommentsKeepsLinesAndNewlines ==
    textHashes # <<>> =>
        \A doc \in {original, edited} :
            LET raw == Render(doc)
                unc == strip_comments(raw, FALSE)
            IN  /\ Len(unc) = Len(raw)
                /\ \A i \in DOMAIN raw :
                       EndsWithNewline(raw[i]) =>
                           EndsWithNewline(unc[i]) /\ EndsWithNewline(stripped(unc[i]))

\* A text was stripped in which a line with "\n" ends inside a block
\* comment, and another in a line comment.
NewlineInsideCommentsSeen ==
    /\ textHashes # <<>>
    /\ LET raw == Render(edited)
           blocks == BlockStates(raw, FALSE)
       IN  /\ Len(strip_comments(raw, FALSE)) = Len(raw)
           /\ \E i \in DOMAIN raw : edited[i].nl /\ blocks[i]
           /\ \E i \in DOMAIN raw :
                  /\ edited[i].nl
                  /\ ~blocks[i]
                  /\ edited[i].ps[Len(edited[i].ps)].k = "line"

(***************************************************************************)
(* SourcePos.__add__ and SourcePos.__sub__                                 *)
(***************************************************************************)
RECURSIVE SumTo(_, _)
\* The number of characters of the first i lines.
SumTo(lens, i) == IF i = 0 THEN 0 ELSE lens[i] + SumTo(lens, i - 1)

\* The number of characters of the source before position p.
Offset(lens, p) == SumTo(lens, p.line_i - 1) + p.col_i

\* C23: for a position p of a source and an integer n with p + n between
\* the start and the end of the source, p + n is the position n
\* characters after p, counting across the lines, and (p + n) - n is p;
\* when p + n would lie outside the source, ValueError is raised.
PositionArithmeticIsExact ==
    (posCall # <<>> /\ posCall.op = "add") =>
        LET lens == LineLens(posSource)
            target == Offset(lens, posCall.p) + posCall.n
        IN  IF target \in 0..SumTo(lens, Len(lens))
            THEN /\ posCall.r.err = "none"
                 /\ Offset(lens, posCall.r) = target
                 /\ posCall.back = posCall.p
            ELSE posCall.r.err = "ValueError"

(***************************************************************************)
(* Chunk.find_pair                                                         *)
(***************************************************************************)
RECURSIVE LiteralMask(_, _, _, _)
\* For every character of s from i on, whether it belongs to a string or
\* character literal, the quotes of the literal included.  quote is the
\* quote that began the literal the scan is in, or "".
LiteralMask(s, i, quote, escaped) ==
    IF i > Len(s) THEN <<>>
    ELSE IF quote = ""
         THEN <<s[i] \in Quotes>> \o LiteralMask(s, i + 1, IF s[i] \in Quotes THEN s[i] ELSE "", FALSE)
         ELSE <<TRUE>> \o LiteralMask(s, i + 1,
                              IF ~escaped /\ s[i] = quote THEN "" ELSE quote,
                              ~escaped /\ s[i] = "\\")

\* The number of characters c of s[a..b] outside the literals.
CodeCount(s, a, b, c) ==
    LET mask == LiteralMask(s, 1, "", FALSE)
    IN  Cardinality({i \in a..b : ~mask[i] /\ s[i] = c})

\* The partner of the opening bracket at p: the first closing bracket of
\* its kind, outside the literals, up to which as many brackets of the
\* kind are closed as are opened.  0: there is none.
Partner(s, p) ==
    LET mask == LiteralMask(s, 1, "", FALSE)
        ends == {q \in (p + 1)..Len(s) :
                    /\ ~mask[q]
                    /\ s[q] = BRACKETS[s[p]]
                    /\ CodeCount(s, p, q, s[p]) = CodeCount(s, p, q, s[q])}
    IN  IF ends = {} THEN 0 ELSE CHOOSE q \in ends : \A e \in ends : q <= e

\* find_pair was called at an opening bracket, outside the literals, that
\* has a partner.
PairCalled ==
    /\ posCall # <<>>
    /\ posCall.op = "find_pair"
    /\ posSource.lines[1][posCall.p] \in DOMAIN BRACKETS
    /\ ~LiteralMask(posSource.lines[1], 1, "", FALSE)[posCall.p]
    /\ Partner(posSource.lines[1], posCall.p) # 0

\* C24 as stated: find_pair(p) returns the position q of the partner of
\* the bracket at p, and every bracket between p and q that lies outside
\* the literals is balanced.
FindPairBalancesEveryBracket ==
    PairCalled =>
        LET s == posSource.lines[1]
            q == posCall.r.q
        IN  /\ posCall.r.err = "none"
            /\ q = Partner(s, posCall.p)
            /\ \A b \in DOMAIN BRACKETS :
                   CodeCount(s, posCall.p + 1, q - 1, b) = CodeCount(s, posCall.p + 1, q - 1, BRACKETS[b])

\* C24, amended: find_pair(p) returns the position q of the partner of
\* the bracket at p: chunk[q] is the closing counterpart of chunk[p], the
\* brackets of that kind between p and q that lie outside the literals
\* are balanced, and bracket characters inside literals are ignored.
\* Brackets of the other kinds are not examined.
FindPairReturnsPartner ==
    PairCalled =>
        LET s == posSource.lines[1]
            q == posCall.r.q
        IN  /\ posCall.r.err = "none"
            /\ q = Partner(s, posCall.p)
            /\ s[q] = BRACKETS[s[posCall.p]]
            /\ CodeCount(s, posCall.p + 1, q - 1, s[posCall.p]) = CodeCount(s, posCall.p + 1, q - 1, s[q])

\* A partner was found beyond a literal that holds a closing bracket of
\* the kind.
BracketInLiteralSeen ==
    /\ PairCalled
    /\ posCall.r.err = "none"
    /\ LET s == posSource.lines[1]
           mask == LiteralMask(s, 1, "", FALSE)
       IN  \E i \in (posCall.p + 1)..(posCall.r.q - 1) : mask[i] /\ s[i] = BRACKETS[s[posCall.p]]


(***************************************************************************)
(* C25: when the constructs that an object uses refer to each other in a   *)
(* cycle, deciding whether a used construct changed terminates: the run    *)
(* of meditate ends without an exception and the object has a status.      *)
(***************************************************************************)
RECURSIVE Reach(_, _, _)
\* The constructs reachable from those of names by at least one dependency.
Reach(g, names, seen) ==
    LET next == UNION {g.deps[n] : n \in names} \ seen
    IN  IF next = {} THEN seen ELSE Reach(g, next, seen \cup next)

\* The object o uses, in the working tree, a construct on a cycle.
UsesCycle(o) ==
    LET g == Graphs[o][content]
    IN  /\ g.err = "none"
        /\ \E i \in DOMAIN g.used : \E n \in g.used[i] :
               \E m \in {n} \cup Reach(g, {n}, {}) : m \in Reach(g, {m}, {})

CyclicReferencesTerminate ==
    (pc = "done" /\ cmd = "meditate")
        => \A o \in called : UsesCycle(o) => err = "none" /\ objStatus[o] # UNCHECKED

(***************************************************************************)
(* Component.create at braces in the scope of a function                   *)
(***************************************************************************)
\* C26: in the block of a function, braces after parentheses and without
\* a control keyword raise a parsing error when no square brackets came
\* before (a function within a function); after square brackets (a lambda)
\* the braces are ignored, so the statement of the lambda is a
\* MiscStatement and the statements after it are parsed too.
LambdaBracesAreIgnored ==
    fnUsed # <<>> =>
        IF \E i \in DOMAIN fnBody : fnBody[i].form = "nested"
        THEN fnUsed[1].err = "ParsingException"
        ELSE /\ fnUsed[1].err = "none"
             /\ Len(fnUsed[1].block) = Len(fnBody)
             /\ \A i \in DOMAIN fnBody : fnBody[i].form = "lambda" =>
                    /\ fnUsed[1].block[i].kind = "MiscStatement"
                    /\ fnUsed[1].block[i].lines = fnBody[i].text

(***************************************************************************)
(* Target.meditate: one analysis for each target of a BuildDir             *)
(***************************************************************************)
\* The number of times that f is in the sequence of the files touched.
Touches(l, f) == Cardinality({i \in DOMAIN l : l[i] = f})

\* C27: within one BuildDir a target is analysed at most once and its
\* output touched at most once, also when it is a library of other targets
\* and visited directly, and when BuildDir.meditate is called again: a
\* step that stays in the BuildDir leaves a target that has a status, and
\* its objects, with the statuses, the modification times and the touches
\* they have, and no file is touched twice.
TargetsAreAnalysedOnce ==
    [][(\E t \in Targets : tgtStatus'[t] # UNCHECKED) =>
           /\ \A i \in DOMAIN log' : Touches(log', log'[i]) = 1
           /\ \A t \in Targets : tgtStatus[t] # UNCHECKED =>
                  /\ tgtStatus'[t] = tgtStatus[t]
                  /\ tgtMtime'[t] = tgtMtime[t]
                  /\ Touches(log', TargetOut(t)) = Touches(log, TargetOut(t))
                  /\ \A i \in DOMAIN TargetObjects(t) :
                         /\ objStatus'[TargetObjects(t)[i]] = objStatus[TargetObjects(t)[i]]
                         /\ objMtime'[TargetObjects(t)[i]] = objMtime[TargetObjects(t)[i]]
                         /\ Touches(log', TargetObjects(t)[i]) = Touches(log, TargetObjects(t)[i])]_vars

\* C27 (witness): in a second call of BuildDir.meditate a library of
\* another target, touched in the first call, has been visited again.
LibraryVisitedAgain ==
    /\ pc = "meditate"
    /\ err = "none"
    /\ todo # {}
    /\ \A t \in Targets : tgtStatus[t] # UNCHECKED
    /\ \E t \in Targets \ todo :
           /\ \E u \in Targets : t \in lib_dependencies(u)
           /\ Touches(log, TargetOut(t)) = 1

(***************************************************************************)
(* The order of the touches                                                *)
(***************************************************************************)
\* The files that a touch of the output of t comes after: the objects of
\* t and the outputs of the libraries t depends on.
TouchedBefore(t) ==
    {TargetObjects(t)[i] : i \in DOMAIN TargetObjects(t)}
        \cup {TargetOut(l) : l \in lib_dependencies(t)}

\* C28: when meditate touches the output of a target, every touch of the
\* objects of the target and of the outputs of the libraries it depends on
\* has happened before.
TargetTouchedLast ==
    \A t \in Targets : \A i \in DOMAIN log : \A j \in DOMAIN log :
        (log[i] = TargetOut(t) /\ log[j] \in TouchedBefore(t)) => j < i

\* C28 (witness): a target was touched whose object and whose library
\* were touched too.
ObjectLibraryAndTargetTouched ==
    \E t \in Targets :
        /\ Touched(TargetOut(t))
        /\ \E i \in DOMAIN TargetObjects(t) : Touched(TargetObjects(t)[i])
        /\ \E l \in lib_dependencies(t) : Touched(TargetOut(l))

(***************************************************************************)
(* CompileObject.meditate                                                  *)
(***************************************************************************)
\* C29: an object file is touched only when the status of the object is
\* set to MINOR_CHANGE in the same call: an object that is CHANGED or
\* NO_CHANGE is not touched and keeps its modification time; and an object
\* whose meditate has returned normally has one of the statuses NO_CHANGE,
\* MINOR_CHANGE and CHANGED.
ObjectTouchedOnlyWhenMinorChange ==
    cmd = "meditate" =>
        \A o \in Objects :
            /\ (Touched(o) \/ objMtime[o] # pre.omt[o]) => objStatus[o] = MINOR_CHANGE
            /\ (o \in called /\ err = "none") =>
                   objStatus[o] \in {NO_CHANGE, MINOR_CHANGE, CHANGED}
            /\ o \notin called => objStatus[o] = UNCHECKED

\* C29 (witness): meditate has returned for an object that it touched,
\* for one that is CHANGED and for one that is NO_CHANGE.
EveryObjectStatusSeen ==
    /\ cmd = "meditate"
    /\ pc = "done"
    /\ err = "none"
    /\ \E o \in called : Touched(o) /\ objStatus[o] = MINOR_CHANGE /\ objMtime[o] # pre.omt[o]
    /\ \E o \in called : objStatus[o] \in {CHANGED, NO_CHANGE} /\ objMtime[o] # 0

(***************************************************************************)
(* Sources without code                                                    *)
(***************************************************************************)
\* A source of the object o holds no code now: it is empty, or has only
\* white space and comments.
HasSourceWithoutCode(o) ==
    \E i \in DOMAIN ObjSources(o) :
        StrippedLines(ObjSources(o)[i], content[ObjSources(o)[i]]) = <<>>

\* C30: meditate and remember on an object one of whose sources holds no
\* code do not abort: meditate gives the object a status, and remember
\* writes the cache file with the stripped_hash of every source.
SourceWithoutCodeIsTolerated ==
    (pc = "done" /\ BuildDirInit(dirs) = "none") =>
        /\ cmd = "meditate" =>
               \A o \in called : HasSourceWithoutCode(o) =>
                   err = "none" /\ objStatus[o] # UNCHECKED
        /\ (cmd = "remember" /\ \E o \in Objects : HasSourceWithoutCode(o)) =>
               /\ err = "none"
               /\ cacheFile.exists
               /\ \A s \in Sources :
                      /\ hex(s) \in DOMAIN cacheFile.map
                      /\ cacheFile.map[hex(s)] = StrippedHashes[s][content[s]]

====
